---- MODULE Spec2Model ----
(***************************************************************************)
(* hsms-ts-sim: the /send-template entry point (src/src/server.ts, second  *)
(* revision, lines 251-539) with the template manager                      *)
(* (src/unnamed/part_000) and the request/reply correlation table          *)
(* pendingReplies.                                                         *)
(*                                                                         *)
(* Node runs every handler to completion, so each action below is one      *)
(* whole handler: an HTTP request, a trx-complete event, a timer callback. *)
(* The continuation of `await sendTemplate(...)` in the HTTP handler is a  *)
(* microtask that runs right after the handler that settled the promise,   *)
(* before any other event, so the HTTP response is written in the same     *)
(* action as the settlement.                                               *)
(***************************************************************************)
EXTENDS Integers, Sequences, FiniteSets, TLC

(* ---------- bounds ---------- *)
\* number of /send-template requests that reach dispatch
MaxOps == 2
\* message contexts (correlation tokens) range over 0..MaxCtx
MaxCtx == 2
\* arrays of the templates given to substitutePlaceholders have up to MaxLen elements
MaxLen == 3
\* substitutePlaceholders / buildDataItems are called up to MaxCalls times on the same arguments
MaxCalls == 2

Ops == 1..MaxOps
Tokens == 0..MaxCtx
Conns == {"host", "device"}

(* ---------- JSON values ---------- *)
\* A JSON value is a record [k, v]: k is the JavaScript type, v the payload.
\* Strings are sequences of one-character strings so that the regular
\* expression of the placeholder syntax can be computed.
Str(s) == [k |-> "str", v |-> s]
Num(n) == [k |-> "num", v |-> n]
Bool(b) == [k |-> "bool", v |-> b]
Arr(s) == [k |-> "arr", v |-> s]
Obj(r) == [k |-> "obj", v |-> r]
Null == [k |-> "null", v |-> 0]
Undefined == [k |-> "undef", v |-> 0]
NaN == [k |-> "nan", v |-> 0]

\* property read obj.f of a template object (own properties only: the
\* fields read this way are never names of Object.prototype)
Get(obj, f) == IF obj.k = "obj" /\ f \in DOMAIN obj.v THEN obj.v[f] ELSE Undefined

\* a ?? b
Coalesce(a, b) == IF a.k \in {"undef", "null"} THEN b ELSE a

\* Boolean(x)
ToBoolean(x) ==
    CASE x.k = "bool" -> x.v
      [] x.k = "num" -> x.v # 0
      [] x.k = "str" -> Len(x.v) > 0
      [] x.k \in {"undef", "null", "nan"} -> FALSE
      [] OTHER -> TRUE

\* a || b
OrElse(a, b) == IF ToBoolean(a) THEN a ELSE b

\* the outcome of an expression that throws (a TypeError of the runtime)
Thrown == [k |-> "throw", v |-> 0]

Digits == <<"0", "1", "2", "3", "4", "5", "6", "7", "8", "9">>
IsDigit(c) == \E i \in 1..10 : Digits[i] = c
DigitVal(c) == (CHOOSE i \in 1..10 : Digits[i] = c) - 1

RECURSIVE ParseDigits(_)
ParseDigits(s) ==
    IF Len(s) = 0 THEN 0
    ELSE 10 * ParseDigits(SubSeq(s, 1, Len(s) - 1)) + DigitVal(s[Len(s)])

\* the decimal digits of a natural number
RECURSIVE NumText(_)
NumText(n) ==
    IF n < 10 THEN <<Digits[n + 1]>>
    ELSE NumText(n \div 10) \o <<Digits[(n % 10) + 1]>>

\* parts.join(sep)
RECURSIVE JoinText(_, _)
JoinText(parts, sep) ==
    IF Len(parts) = 0 THEN <<>>
    ELSE IF Len(parts) = 1 THEN parts[1]
    ELSE parts[1] \o sep \o JoinText(Tail(parts), sep)

sTrue == <<"t", "r", "u", "e">>
sFalse == <<"f", "a", "l", "s", "e">>
sNull == <<"n", "u", "l", "l">>
sUndefined == <<"u", "n", "d", "e", "f", "i", "n", "e", "d">>
sNaN == <<"N", "a", "N">>
sObjectObject == <<"[", "o", "b", "j", "e", "c", "t", " ", "O", "b", "j", "e", "c", "t", "]">>

\* String(x), for JSON values (numbers are naturals in this model).  An
\* array is joined with commas, null and undefined elements giving the
\* empty string.  An object is converted by the toString it inherits,
\* unless it has an own property toString: a JSON value is never a
\* function, so the conversion finds no usable method and throws.
RECURSIVE ToStringJS(_)
ToStringJS(x) ==
    CASE x.k = "str" -> x
      [] x.k = "num" -> Str(NumText(x.v))
      [] x.k = "nan" -> Str(sNaN)
      [] x.k = "bool" -> Str(IF x.v THEN sTrue ELSE sFalse)
      [] x.k = "null" -> Str(sNull)
      [] x.k = "undef" -> Str(sUndefined)
      [] x.k = "arr" ->
           LET parts == [i \in DOMAIN x.v |->
                           IF x.v[i].k \in {"null", "undef"} THEN Str(<<>>)
                           ELSE ToStringJS(x.v[i])]
           IN IF \E i \in DOMAIN parts : parts[i].k = "throw" THEN Thrown
              ELSE Str(JoinText([i \in DOMAIN parts |-> parts[i].v], <<",">>))
      [] x.k = "obj" -> IF "toString" \in DOMAIN x.v THEN Thrown ELSE Str(sObjectObject)
      [] OTHER -> Thrown

BlankChars == {" ", "\t", "\n"}

\* s.trim()
RECURSIVE TrimLeft(_)
TrimLeft(s) == IF Len(s) > 0 /\ s[1] \in BlankChars THEN TrimLeft(Tail(s)) ELSE s
RECURSIVE TrimRight(_)
TrimRight(s) ==
    IF Len(s) > 0 /\ s[Len(s)] \in BlankChars THEN TrimRight(SubSeq(s, 1, Len(s) - 1)) ELSE s
Trim(s) == TrimRight(TrimLeft(s))

\* Number(s) for a string: white space around it is ignored, the empty
\* string is 0, a string of decimal digits is its value, anything else of
\* the strings of this model is NaN
StringToNumber(s) ==
    IF \A i \in 1..Len(Trim(s)) : IsDigit(Trim(s)[i]) THEN Num(ParseDigits(Trim(s))) ELSE NaN

\* Number(x): an array is converted through its string, an object through
\* the methods it inherits (NaN) unless an own property toString hides them
ToNumber(x) ==
    CASE x.k = "num" -> x
      [] x.k = "bool" -> Num(IF x.v THEN 1 ELSE 0)
      [] x.k = "null" -> Num(0)
      [] x.k = "str" -> StringToNumber(x.v)
      [] x.k = "arr" ->
           IF ToStringJS(x).k = "throw" THEN Thrown ELSE StringToNumber(ToStringJS(x).v)
      [] x.k = "obj" -> IF "toString" \in DOMAIN x.v THEN Thrown ELSE NaN
      [] x.k = "throw" -> Thrown
      [] OTHER -> NaN

(* ---------- placeholder syntax ---------- *)
WhiteSpace == {" ", "\t", "\n"}

\* number of leading white-space characters of s
RECURSIVE LeadingWs(_)
LeadingWs(s) ==
    IF Len(s) = 0 \/ s[1] \notin WhiteSpace THEN 0
    ELSE 1 + LeadingWs(Tail(s))

\* the text between the opening {{ and the closing }} of s
Inner(s) == SubSeq(s, 3, Len(s) - 2)

\* obj.match(/^{{\s*([^}]+)\s*}}$/) succeeds
IsToken(s) ==
    /\ Len(s) >= 5
    /\ s[1] = "{" /\ s[2] = "{"
    /\ s[Len(s) - 1] = "}" /\ s[Len(s)] = "}"
    /\ \A i \in 3..(Len(s) - 2) : s[i] # "}"

\* m[1]: the first \s* is greedy and takes the leading white space, but
\* gives one character back when nothing else is left for [^}]+ ; the
\* group [^}]+ is greedy too and runs up to the closing braces, trailing
\* white space included, so the second \s* always matches the empty string
TokenKey(s) ==
    LET in == Inner(s)
        lw == LeadingWs(in)
        skip == IF lw = Len(in) THEN lw - 1 ELSE lw
    IN SubSeq(in, skip + 1, Len(in))

(* ---------- value tables ---------- *)
\* A value table is a function from keys (character sequences) to JSON
\* values.  It is a plain JavaScript object, so a property read also finds
\* what Object.prototype provides; valueOf stands for those inherited names.
kValueOf == <<"v", "a", "l", "u", "e", "O", "f">>
ProtoKeys == {kValueOf}
InheritedValue == [k |-> "function", v |-> 0]

\* values[k]
Lookup(values, k) ==
    IF k \in DOMAIN values THEN values[k]
    ELSE IF k \in ProtoKeys THEN InheritedValue
    ELSE Undefined

(* ---------- findPlaceholders / substitutePlaceholders ---------- *)
Range(f) == {f[x] : x \in DOMAIN f}

\* The code returns a Set in walk order; the order only shows in the order
\* of the names in the error text and is not modelled.
RECURSIVE findPlaceholders(_)
findPlaceholders(obj) ==
    CASE obj.k = "str" -> IF IsToken(obj.v) THEN {TokenKey(obj.v)} ELSE {}
      [] obj.k \in {"arr", "obj"} -> UNION {findPlaceholders(c) : c \in Range(obj.v)}
      [] OTHER -> {}

\* const out = {}; for (const [k, v] of Object.entries(obj)) out[k] = ...
\* An assignment out['__proto__'] = x runs the setter every plain object
\* inherits: it creates no property of out.
AssignedKeys(keys) == keys \ {"__proto__"}

\* faulty variant: no key is ever found in the table
HasOwn_Never(values, k) == FALSE

\* Object.prototype.hasOwnProperty.call(values, k)
HasOwn(values, k) == k \in DOMAIN values

RECURSIVE substitutePlaceholders(_, _)
substitutePlaceholders(obj, values) ==
    CASE obj.k = "str" ->
           IF IsToken(obj.v) /\ HasOwn(values, TokenKey(obj.v))
           THEN values[TokenKey(obj.v)]
           ELSE obj
      [] obj.k = "arr" ->
           Arr([i \in DOMAIN obj.v |-> substitutePlaceholders(obj.v[i], values)])
      [] obj.k = "obj" ->
           Obj([f \in AssignedKeys(DOMAIN obj.v) |-> substitutePlaceholders(obj.v[f], values)])
      [] OTHER -> obj

(* ---------- buildDataItems ---------- *)
\* DataItemRef: the builder DataItemRef.a always exists; E is the set of the
\* others that exist
EncoderNames == {"u2", "u4", "i2", "i4", "f4", "f8", "bool", "boolArray", "b", "list"}

LowerCase == <<"a", "b", "c", "d", "e", "f", "g", "h", "i", "j", "k", "l", "m",
               "n", "o", "p", "q", "r", "s", "t", "u", "v", "w", "x", "y", "z">>
UpperCase == <<"A", "B", "C", "D", "E", "F", "G", "H", "I", "J", "K", "L", "M",
               "N", "O", "P", "Q", "R", "S", "T", "U", "V", "W", "X", "Y", "Z">>
UpperChar(c) ==
    IF \E i \in 1..26 : LowerCase[i] = c
    THEN UpperCase[CHOOSE i \in 1..26 : LowerCase[i] = c] ELSE c
LowerChar(c) ==
    IF \E i \in 1..26 : UpperCase[i] = c
    THEN LowerCase[CHOOSE i \in 1..26 : UpperCase[i] = c] ELSE c
\* s.toUpperCase()
ToUpperCase(s) == [i \in DOMAIN s |-> UpperChar(s[i])]

tagA == <<"A">>
tagU2 == <<"U", "2">>
tagU4 == <<"U", "4">>
tagI2 == <<"I", "2">>
tagI4 == <<"I", "4">>
tagF4 == <<"F", "4">>
tagF8 == <<"F", "8">>
tagBOOL == <<"B", "O", "O", "L">>
tagBOOLARRAY == <<"B", "O", "O", "L", "_", "A", "R", "R", "A", "Y">>
tagB == <<"B">>
tagBIN == <<"B", "I", "N">>
tagLIST == <<"L", "I", "S", "T">>
sItem == <<"i", "t", "e", "m">>

\* ---- Buffer ----
HexDigits == <<"0", "1", "2", "3", "4", "5", "6", "7", "8", "9", "a", "b", "c", "d", "e", "f">>
\* [0-9a-fA-F]
IsHex(c) == \E i \in 1..16 : HexDigits[i] = LowerChar(c)
HexVal(c) == (CHOOSE i \in 1..16 : HexDigits[i] = LowerChar(c)) - 1
\* val.replace(/[^0-9a-fA-F]/g, '')
StripNonHex(s) == SelectSeq(s, IsHex)

\* a Buffer: its bytes
Buffer(bytes) == [k |-> "buffer", v |-> bytes]

\* Buffer.from(hex, 'hex') for an even number of hex digits
RECURSIVE HexToBytes(_)
HexToBytes(h) ==
    IF Len(h) < 2 THEN <<>>
    ELSE <<16 * HexVal(h[1]) + HexVal(h[2])>> \o HexToBytes(SubSeq(h, 3, Len(h)))

\* buf.toString('hex')
RECURSIVE BytesToHex(_)
BytesToHex(bytes) ==
    IF Len(bytes) = 0 THEN <<>>
    ELSE <<HexDigits[(bytes[1] \div 16) + 1], HexDigits[(bytes[1] % 16) + 1]>>
         \o BytesToHex(Tail(bytes))

\* the byte an element of Buffer.from(array) becomes: Number(e) & 255, NaN giving 0
ByteOf(e) ==
    CASE ToNumber(e).k = "num" -> Num(ToNumber(e).v % 256)
      [] ToNumber(e).k = "throw" -> Thrown
      [] OTHER -> Num(0)

\* Buffer.from(array)
BufferFrom(elems) ==
    IF \E i \in DOMAIN elems : ByteOf(elems[i]).k = "throw" THEN Thrown
    ELSE Buffer([i \in DOMAIN elems |-> ByteOf(elems[i]).v])

\* val.indexOf(',') >= 0
HasComma(s) == \E i \in DOMAIN s : s[i] = ","

\* val.split(',')
RECURSIVE SplitComma(_)
SplitComma(s) ==
    IF ~HasComma(s) THEN <<s>>
    ELSE LET i == CHOOSE j \in DOMAIN s : s[j] = "," /\ \A m \in 1..(j - 1) : s[m] # ","
         IN <<SubSeq(s, 1, i - 1)>> \o SplitComma(SubSeq(s, i + 1, Len(s)))

IsNumber(x) == x.k = "num"
\* val.split(',').map(s => Number(s.trim())).filter(n => !Number.isNaN(n))
CommaNumbers(s) ==
    SelectSeq([i \in DOMAIN SplitComma(s) |-> StringToNumber(Trim(SplitComma(s)[i]))], IsNumber)

\* ---- JSON.stringify ----
\* The objects of the model list their keys in this order.
KeyOrder == <<"type", "name", "value", "size", "x", "toString">>
KeyText(f) ==
    CASE f = "type" -> <<"t", "y", "p", "e">>
      [] f = "name" -> <<"n", "a", "m", "e">>
      [] f = "value" -> <<"v", "a", "l", "u", "e">>
      [] f = "size" -> <<"s", "i", "z", "e">>
      [] f = "x" -> <<"x">>
      [] OTHER -> <<"t", "o", "S", "t", "r", "i", "n", "g">>
Quoted(s) == <<"\"">> \o s \o <<"\"">>

\* JSON.stringify(x), for values without characters that need escaping
RECURSIVE JSONStringify(_)
JSONStringify(x) ==
    CASE x.k = "str" -> Quoted(x.v)
      [] x.k = "num" -> NumText(x.v)
      [] x.k = "bool" -> IF x.v THEN sTrue ELSE sFalse
      [] x.k = "arr" ->
           <<"[">> \o JoinText([i \in DOMAIN x.v |-> JSONStringify(x.v[i])], <<",">>) \o <<"]">>
      [] x.k = "obj" ->
           LET present(f) == f \in DOMAIN x.v
               keys == SelectSeq(KeyOrder, present)
           IN <<"{">> \o JoinText([i \in DOMAIN keys |->
                                     Quoted(KeyText(keys[i])) \o <<":">>
                                     \o JSONStringify(x.v[keys[i]])], <<",">>) \o <<"}">>
      [] OTHER -> sNull

\* ---- built items ----
\* What a builder of DataItemRef was called with: enc is the builder.
BuiltItem(enc, name, value, size, children) ==
    [enc |-> enc, name |-> name, value |-> value, size |-> size, children |-> children]
\* DataItemRef.a(name, text, size)
TextItem(name, text, size) == BuiltItem("a", name, Str(text), size, <<>>)
\* DataItemRef.u2(name, n), .bool(name, b), .boolArray(name, arr), .b(name, buf)
ValueItem(enc, name, value) == BuiltItem(enc, name, value, Undefined, <<>>)
\* DataItemRef.list(name, ...children)
ListItem(name, children) == BuiltItem("list", name, Undefined, Undefined, children)
\* the arrow function of items.map threw
ThrowItem == BuiltItem("throw", Undefined, Undefined, Undefined, <<>>)

Max(a, b) == IF a >= b THEN a ELSE b

\* DataItemRef.a(name, String(val ?? ''), size): the fallback of the
\* branches that have a fixed size
TextOf(name, val, size) ==
    IF ToStringJS(Coalesce(val, Str(<<>>))).k = "throw" THEN ThrowItem
    ELSE TextItem(name, ToStringJS(Coalesce(val, Str(<<>>))).v, size)

\* case 'A' and default:
\* DataItemRef.a(name, String(val ?? ''), it.size || Math.max(1, String(val ?? '').length))
TextCase(it, name, val) ==
    LET txt == ToStringJS(Coalesce(val, Str(<<>>))) IN
    IF txt.k = "throw" THEN ThrowItem
    ELSE TextItem(name, txt.v, OrElse(Get(it, "size"), Num(Max(1, Len(txt.v)))))

\* faulty variant: the text fallback is taken although a builder exists
NumericCase_TextOnly(chain, size, name, val, E) ==
    TextItem(name, ToStringJS(ToNumber(Coalesce(val, Num(0)))).v, Num(size))

\* the numeric cases: the first builder of `chain` that exists is called
\* with Number(val ?? 0); without one,
\* DataItemRef.a(name, String(Number(val ?? 0)), size)
NumericCase(chain, size, name, val, E) ==
    LET n == ToNumber(Coalesce(val, Num(0)))
        have == SelectSeq(chain, LAMBDA e : e \in E)
    IN IF n.k = "throw" THEN ThrowItem
       ELSE IF Len(have) > 0 THEN ValueItem(have[1], name, n)
       ELSE TextItem(name, ToStringJS(n).v, Num(size))

\* case 'BOOL'
BoolCase(name, val, E) ==
    IF "bool" \in E THEN ValueItem("bool", name, Bool(ToBoolean(val)))
    ELSE TextItem(name, ToStringJS(Bool(ToBoolean(val))).v, Num(1))

\* faulty variant: the children are numbered from 1
ChildName_FromOne(name, i) == Str(ToStringJS(name).v \o <<"_">> \o NumText(i + 1))

\* `${name}_${i}`
ChildName(name, i) == Str(ToStringJS(name).v \o <<"_">> \o NumText(i))

\* case 'BOOL_ARRAY'
BoolArrayCase(name, val, E) ==
    IF val.k = "arr"
    THEN IF "boolArray" \in E THEN ValueItem("boolArray", name, val)
         ELSE IF "list" \in E
         THEN IF ToStringJS(name).k = "throw" /\ Len(val.v) > 0 THEN ThrowItem
              ELSE ListItem(name,
                     [i \in DOMAIN val.v |->
                        IF "bool" \in E
                        THEN ValueItem("bool", ChildName(name, i - 1), Bool(ToBoolean(val.v[i])))
                        ELSE TextItem(ChildName(name, i - 1),
                                      ToStringJS(Bool(ToBoolean(val.v[i]))).v, Num(1))])
         ELSE TextItem(name, JSONStringify(val), Num(Len(val.v)))
    ELSE TextOf(name, val, Num(1))

\* faulty variant: an odd number of hex digits is decoded, the last digit as a byte
HexBytes_Partial(hex) ==
    IF Len(hex) > 0 THEN HexToBytes(hex \o <<"0">>) ELSE <<>>

\* if (hex.length % 2 === 0 && hex.length > 0) Buffer.from(hex, 'hex'):
\* the bytes decoded from the hex digits, none when the string is not decoded
HexBytes(hex) ==
    IF Len(hex) % 2 = 0 /\ Len(hex) > 0 THEN HexToBytes(hex) ELSE <<>>

\* DataItemRef.b ? DataItemRef.b(name, buf) : DataItemRef.a(name, buf.toString('hex'), size)
BytesItem(name, bytes, size, E) ==
    IF "b" \in E THEN ValueItem("b", name, Buffer(bytes))
    ELSE TextItem(name, BytesToHex(bytes), Num(size))

\* case 'B', 'BIN'
BinaryCase(name, val, E) ==
    IF val.k = "arr"
    THEN IF BufferFrom(val.v).k = "throw" THEN ThrowItem
         ELSE BytesItem(name, BufferFrom(val.v).v, Len(val.v), E)
    ELSE IF val.k = "str"
    THEN IF HasComma(val.v)
         THEN LET nums == CommaNumbers(val.v) IN
              BytesItem(name, BufferFrom(nums).v, Len(nums), E)
         ELSE LET bytes == HexBytes(StripNonHex(val.v)) IN
              IF Len(bytes) > 0 THEN BytesItem(name, bytes, Len(bytes), E)
              ELSE TextItem(name, val.v, Num(Len(val.v)))
    ELSE TextOf(name, val, Num(0))

RECURSIVE buildDataItems(_, _)
RECURSIVE buildItem(_, _)

\* faulty variant: the nested descriptors are built in reverse order
ListCase_Reversed(name, val, E) ==
    LET sub == buildDataItems(OrElse(val, Arr(<<>>)), E) IN
    IF sub.thrown THEN ThrowItem
    ELSE ListItem(name, [j \in DOMAIN sub.items |-> sub.items[Len(sub.items) + 1 - j]])

\* case 'LIST'
ListCase(name, val, E) ==
    IF "list" \in E
    THEN LET sub == buildDataItems(OrElse(val, Arr(<<>>)), E) IN
         IF sub.thrown THEN ThrowItem ELSE ListItem(name, sub.items)
    ELSE TextItem(name, JSONStringify(OrElse(val, Arr(<<>>))), Num(0))

\* the arrow function of items.map: one descriptor `it`
buildItem(it, E) ==
    IF it.k \in {"null", "undef"} THEN ThrowItem
    ELSE LET tagText == ToStringJS(OrElse(Get(it, "type"), Str(tagA)))
             name == OrElse(Get(it, "name"), Str(sItem))
             val == Get(it, "value")
         IN IF tagText.k = "throw" THEN ThrowItem
            ELSE LET t == ToUpperCase(tagText.v) IN
                 CASE t = tagA -> TextCase(it, name, val)
                   [] t = tagU2 -> NumericCase(<<"u2">>, 2, name, val, E)
                   [] t = tagU4 -> NumericCase(<<"u4">>, 4, name, val, E)
                   [] t = tagI2 -> NumericCase(<<"i2", "i4">>, 2, name, val, E)
                   [] t = tagI4 -> NumericCase(<<"i4">>, 4, name, val, E)
                   [] t = tagF4 -> NumericCase(<<"f4">>, 4, name, val, E)
                   [] t = tagF8 -> NumericCase(<<"f8">>, 8, name, val, E)
                   [] t = tagBOOL -> BoolCase(name, val, E)
                   [] t = tagBOOLARRAY -> BoolArrayCase(name, val, E)
                   [] t \in {tagB, tagBIN} -> BinaryCase(name, val, E)
                   [] t = tagLIST -> ListCase(name, val, E)
                   [] OTHER -> TextCase(it, name, val)

\* buildDataItems(items, DataItemRef): the list of built items, or thrown
buildDataItems(items, E) ==
    IF ~ToBoolean(items) \/ items.k # "arr" THEN [thrown |-> FALSE, items |-> <<>>]
    ELSE LET bs == [i \in DOMAIN items.v |-> buildItem(items.v[i], E)] IN
         IF \E i \in DOMAIN bs : bs[i].enc = "throw" THEN [thrown |-> TRUE, items |-> <<>>]
         ELSE [thrown |-> FALSE, items |-> bs]

(* ---------- the strings, templates and value tables of the model ---------- *)
sA == <<"A">>
sPayload == <<"p", "a", "y", "l", "o", "a", "d">>
sHello == <<"H", "e", "l", "l", "o">>
kMsg == <<"m", "s", "g">>
tokMsg == <<"{", "{">> \o kMsg \o <<"}", "}">>
tokValueOf == <<"{", "{">> \o kValueOf \o <<"}", "}">>

Item(type, name, value) == Obj([type |-> Str(type), name |-> Str(name), value |-> value])

\* templates/S1F1.json: a primary message that expects a reply
TplS1F1 ==
    Obj([stream |-> Num(1), func |-> Num(1), replyExpected |-> Bool(TRUE),
         items |-> Arr(<<Item(sA, sPayload, Str(tokMsg))>>)])
\* inline, no placeholder, no reply expected
TplPlain ==
    Obj([stream |-> Num(1), func |-> Num(2),
         items |-> Arr(<<Item(sA, sPayload, Str(sHello))>>)])
\* inline, the placeholder key is a name every object inherits
TplProto ==
    Obj([stream |-> Num(1), func |-> Num(1), replyExpected |-> Bool(TRUE),
         items |-> Arr(<<Item(sA, sPayload, Str(tokValueOf))>>)])

\* inline, device and replyExpected given by placeholders
kD == <<"d">>
kR == <<"r">>
tokD == <<"{", "{", "d", "}", "}">>
tokR == <<"{", "{", "r", "}", "}">>
TplDevice ==
    Obj([device |-> Str(tokD), stream |-> Num(1), func |-> Num(3), replyExpected |-> Str(tokR),
         items |-> Arr(<<Item(sA, sPayload, Str(tokD))>>)])
\* inline, the value of the item is an object with an own property toString
TplObject ==
    Obj([stream |-> Num(1), func |-> Num(1),
         items |-> Arr(<<Item(sA, sPayload, Obj([toString |-> Num(1)]))>>)])

\* request field `templateInline`
InlineIds == {"none", "plain", "proto", "device", "object"}
InlineTemplate(id) ==
    CASE id = "plain" -> TplPlain
      [] id = "proto" -> TplProto
      [] id = "device" -> TplDevice
      [] id = "object" -> TplObject
      [] OTHER -> Undefined

\* request field `name`
NameIds == {"none", "S1F1.json", "nofile"}
TemplatesDir == [f \in {"S1F1.json"} |-> TplS1F1]

\* request field `values`
ValueIds == {"none", "empty", "msg", "msgT", "reply", "dev", "devNoReply"}
EmptyTable == [x \in {} |-> Null]
kReplyExpected == <<"r", "e", "p", "l", "y", "E", "x", "p", "e", "c", "t", "e", "d">>
kTimeoutMs == <<"t", "i", "m", "e", "o", "u", "t", "M", "s">>
ValueTable(id) ==
    CASE id = "msg" -> (kMsg :> Str(sHello))
      [] id = "msgT" -> (kMsg :> Str(sHello)) @@ (kTimeoutMs :> Num(50))
      [] id = "reply" -> (kReplyExpected :> Bool(TRUE)) @@ (kTimeoutMs :> Num(0))
      [] id = "dev" -> (kD :> Num(2)) @@ (kR :> Null)
      [] id = "devNoReply" -> (kD :> Num(2)) @@ (kR :> Bool(FALSE))
      [] OTHER -> EmptyTable

\* request field `from`
FromIds == {"none", "host", "device"}

\* loadTemplate(name): the parsed file, or null when it cannot be read
loadTemplate(name) ==
    IF name \in DOMAIN TemplatesDir THEN TemplatesDir[name] ELSE Null

(* ---------- state ---------- *)
VARIABLES
    pendingReplies, \* the Map: context -> [resolve, timeout], both named by the waited send that made them
    nops,           \* number of waited sends made so far; the next one is nops + 1
    info,           \* per waited send: the connection and the context of its message
    promise,        \* per waited send: the promise returned by sendAndWaitIfNeeded
    calls,          \* per waited send: how often its resolve or reject was invoked
    timer,          \* per waited send: its setTimeout handle: none, armed, cleared, fired
    trx,            \* transactions open inside the two transports (primary sent, reply outstanding)
    resp,           \* per waited send: the HTTP response of its /send-template request
    replied,        \* history: the contexts that trx-complete events have carried so far
    last,           \* the handler that ran last, with its inputs and what it did
    argTemplate,    \* substitutePlaceholders called on its own: the object passed as `obj`
    argValues,      \* ... and the object passed as `values`
    returned,       \* ... and what the calls made so far returned, in order
    found,          \* ... and what the calls findPlaceholders(obj) made so far returned, in order
    argItems,       \* buildDataItems called on its own: the array passed as `items`
    argEncoders,    \* ... the builders DataItemRef has besides DataItemRef.a
    built           \* ... and what the calls made so far returned or threw, in order

serverVars == <<pendingReplies, nops, info, promise, calls, timer, trx, resp, replied, last>>
substVars == <<argTemplate, argValues, returned, found>>
buildVars == <<argItems, argEncoders, built>>
vars == <<serverVars, substVars, buildVars>>

(* ---------- promise values, errors, responses ---------- *)
NoValue == [kind |-> "none", primary |-> 0, reply |-> 0, name |-> "", message |-> ""]
\* { primary, reply, tc }: primary and reply are named by the waited send
\* whose message the primary is / the reply answers
ReplyResult(p, r) == [kind |-> "trx", primary |-> p, reply |-> r, name |-> "", message |-> ""]
\* { status: 'sent' }
SentAck == [kind |-> "sent", primary |-> 0, reply |-> 0, name |-> "", message |-> ""]
\* an Error object
ErrorValue(m) == [kind |-> "error", primary |-> 0, reply |-> 0, name |-> "Error", message |-> m]

TimeoutMessage == "T3 timeout or no reply"
\* what conn.send may throw: "" stands for `no throw`
ThrowNone == "none"
TransportErrors == {"socket closed", "T3 timeout or no reply"}
Throws == {ThrowNone} \cup TransportErrors

\* err.message || String(err)
ErrorText(e) == IF e.message # "" THEN e.message ELSE e.name

NoResp == [status |-> 0, ok |-> FALSE, error |-> "", result |-> NoValue]
\* res.json({ ok: true, result })
OkResp(result) == [status |-> 200, ok |-> TRUE, error |-> "", result |-> result]
\* faulty variant: the handler has no catch, the error leaves it unanswered
CatchResp_Escapes(e) == NoResp

\* res.status(500).json({ ok: false, error: err.message || String(err) })
CatchResp(e) == [status |-> 500, ok |-> FALSE, error |-> ErrorText(e), result |-> NoValue]
\* the continuation of `await sendTemplate(...)` for a settled promise
AwaitResp(p) == IF p.state = "resolved" THEN OkResp(p.value) ELSE CatchResp(p.value)

NoPromise == [state |-> "none", value |-> NoValue]
PendingPromise == [state |-> "pending", value |-> NoValue]

\* resolve(v) / reject(e) of a promise: only the first call settles it
Settle(p, st, val) == IF p.state = "pending" THEN [state |-> st, value |-> val] ELSE p

(* ---------- the Map and the timers ---------- *)
\* pendingReplies.set(ctx, { resolve, timeout: to })
MapSet(tbl, ctx, o) ==
    [c \in (DOMAIN tbl) \cup {ctx} |->
        IF c = ctx THEN [resolve |-> o, timeout |-> o] ELSE tbl[c]]
\* pendingReplies.delete(ctx)
MapDelete(tbl, ctx) == [c \in (DOMAIN tbl) \ {ctx} |-> tbl[c]]
\* clearTimeout(h): an armed timer never fires; otherwise no effect
clearTimeout(tm, h) == [tm EXCEPT ![h] = IF @ = "armed" THEN "cleared" ELSE @]

NoInfo == [conn |-> "", ctx |-> 0]
NoMsg == [device |-> NaN, stream |-> NaN, func |-> NaN, replyExpected |-> FALSE,
          context |-> 0, items |-> <<>>]
NoLast ==
    [kind |-> "init", name |-> "none", inline |-> "none", values |-> "none", from |-> "none",
     status |-> 0, error |-> "", missing |-> {}, result |-> NoValue,
     sendCalls |-> 0, wait |-> FALSE, timeoutMs |-> NaN, thrown |-> ThrowNone,
     conn |-> "", ctx |-> 0, op |-> 0, hit |-> FALSE,
     substituted |-> Undefined, msg |-> NoMsg, steps |-> <<>>]

\* the server after start-up: nothing pending, no request handled yet
ServerInit ==
    /\ pendingReplies = [c \in {} |-> [resolve |-> 0, timeout |-> 0]]
    /\ nops = 0
    /\ info = [o \in Ops |-> NoInfo]
    /\ promise = [o \in Ops |-> NoPromise]
    /\ calls = [o \in Ops |-> 0]
    /\ timer = [o \in Ops |-> "none"]
    /\ trx = {}
    /\ resp = [o \in Ops |-> NoResp]
    /\ replied = {}
    /\ last = NoLast

\* no call of substitutePlaceholders or findPlaceholders on its own
SubstIdle == argTemplate = Null /\ argValues = EmptyTable /\ returned = <<>> /\ found = <<>>
\* no call of buildDataItems on its own
BuildIdle == argItems = Arr(<<>>) /\ argEncoders = {} /\ built = <<>>

Init == ServerInit /\ SubstIdle /\ BuildIdle

(* ---------- sendTemplate (template manager) ---------- *)
DefaultTimeoutMs == 10000

\* Boolean(substituted.replyExpected ?? templateObj.replyExpected ?? false)
ReplyExpected(substituted, templateObj) ==
    ToBoolean(Coalesce(Coalesce(Get(substituted, "replyExpected"),
                                Get(templateObj, "replyExpected")), Bool(FALSE)))

\* Number(values && values.timeoutMs ? values.timeoutMs : 10000)
TimeoutMs(values) ==
    IF ToBoolean(Lookup(values, kTimeoutMs))
    THEN ToNumber(Lookup(values, kTimeoutMs))
    ELSE Num(DefaultTimeoutMs)

\* hsms-driver's DataItem, which the handler passes as DataItemRef.  The
\* templates of the requests only hold text items, and those are built by
\* DataItem.a whatever other builders there are.
DataItem == EncoderNames

\* buildDataItems(substituted.items || [], DataItemRef)
BuiltItems(substituted) == buildDataItems(OrElse(Get(substituted, "items"), Arr(<<>>)), DataItem)

\* what the runtime throws when String(val) finds no conversion
ConversionError ==
    [kind |-> "error", primary |-> 0, reply |-> 0, name |-> "TypeError",
     message |-> "Cannot convert object to primitive value"]

\* faulty variant: the original template is asked before the substituted copy
BuildMessage_OriginalFirst(substituted, templateObj, ctx) ==
    [device |-> ToNumber(Coalesce(Coalesce(Get(templateObj, "device"),
                                           Get(substituted, "device")), Num(1))),
     stream |-> ToNumber(Coalesce(Coalesce(Get(templateObj, "stream"),
                                           Get(substituted, "stream")), Num(1))),
     func |-> ToNumber(Coalesce(Coalesce(Get(templateObj, "func"),
                                         Get(substituted, "func")), Num(1))),
     replyExpected |-> ReplyExpected(templateObj, substituted),
     context |-> ctx,
     items |-> BuiltItems(substituted).items]

\* The message sendTemplate builds; ctx is the context the transport gives
\* it.  items is the list buildDataItems returned.
BuildMessage(substituted, templateObj, ctx) ==
    [device |-> ToNumber(Coalesce(Coalesce(Get(substituted, "device"),
                                           Get(templateObj, "device")), Num(1))),
     stream |-> ToNumber(Coalesce(Coalesce(Get(substituted, "stream"),
                                           Get(templateObj, "stream")), Num(1))),
     func |-> ToNumber(Coalesce(Coalesce(Get(substituted, "func"),
                                         Get(templateObj, "func")), Num(1))),
     replyExpected |-> ReplyExpected(substituted, templateObj),
     context |-> ctx,
     items |-> BuiltItems(substituted).items]

(* ---------- the transport ---------- *)
\* The contexts a transport can give a new message: any that no request
\* still pending on that transport instance carries.
FreshContexts(conn) ==
    Tokens \ ({t.ctx : t \in {u \in trx : u.conn = conn}}
              \cup {info[o].ctx : o \in {q \in 1..nops : info[q].conn = conn /\ timer[q] = "armed"}})

(* ---------- POST /send-template ---------- *)
\* placeholders.filter(k => (values || {})[k] === undefined)
MissingValues(tpl, values) ==
    {k \in findPlaceholders(tpl) : Lookup(values, k).k = "undef"}

\* templateInline || loadTemplate(name)
RequestTemplate(name, inline) ==
    IF inline # "none" THEN InlineTemplate(inline) ELSE loadTemplate(name)

\* The early returns of the handler, in the order of the code: the status
\* of the answer, or 0 when the handler goes on to sendTemplate.
EarlyReturn(name, inline, values, from) ==
    IF name = "none" /\ inline = "none"
    THEN [status |-> 400, error |-> "require name or templateInline", missing |-> {}]
    ELSE IF from = "none"
    THEN [status |-> 400, error |-> "require from (host|device)", missing |-> {}]
    ELSE IF RequestTemplate(name, inline).k = "null"
    THEN [status |-> 404, error |-> "template not found", missing |-> {}]
    ELSE IF MissingValues(RequestTemplate(name, inline), ValueTable(values)) # {}
    THEN [status |-> 400, error |-> "Missing template values",
          missing |-> MissingValues(RequestTemplate(name, inline), ValueTable(values))]
    ELSE [status |-> 0, error |-> "", missing |-> {}]

\* from === 'host' ? hostConn : deviceConn
ConnOf(from) == IF from = "host" THEN "host" ELSE "device"

\* faulty variant: an early answer without its `return`
Proceeds_NoReturn(early) == TRUE

\* the `return` in front of each early answer: the handler goes on to
\* sendTemplate only when none of them was taken
Proceeds(early) == early.status = 0

\* The requests of the model, each with what the handler and sendTemplate
\* compute from it before a context is assigned (context 0 is a stand-in).
RequestRecord(name, inline, values, from) ==
    [name |-> name, inline |-> inline, values |-> values, from |-> from,
     early |-> EarlyReturn(name, inline, values, from),
     substituted |-> substitutePlaceholders(RequestTemplate(name, inline), ValueTable(values)),
     msg |-> BuildMessage(substitutePlaceholders(RequestTemplate(name, inline),
                                                 ValueTable(values)),
                          RequestTemplate(name, inline), 0),
     buildThrown |-> BuiltItems(substitutePlaceholders(RequestTemplate(name, inline),
                                                       ValueTable(values))).thrown,
     timeoutMs |-> TimeoutMs(ValueTable(values))]

\* request bodies: <<name, templateInline, values, from>>
RequestBodies ==
    {<<"none", "none", "msg", "host">>,          \* neither name nor templateInline
     <<"S1F1.json", "none", "msg", "none">>,     \* no from
     <<"nofile", "none", "none", "host">>,       \* no such template file
     <<"S1F1.json", "none", "none", "host">>,    \* {{msg}} without a value
     <<"S1F1.json", "none", "msg", "host">>,     \* waited send on the host connection
     <<"S1F1.json", "none", "msg", "device">>,   \* waited send on the device connection
     <<"nofile", "plain", "empty", "device">>,   \* inline template, no reply expected
     <<"S1F1.json", "none", "msgT", "device">>,  \* values.timeoutMs = 50
     <<"none", "plain", "reply", "host">>,       \* values.replyExpected = true, values.timeoutMs = 0
     <<"none", "proto", "empty", "host">>,       \* {{valueOf}} without a value
     <<"none", "device", "dev", "device">>,      \* device given, replyExpected given as null
     <<"none", "device", "devNoReply", "host">>, \* device given, replyExpected given as false
     <<"none", "object", "empty", "host">>}      \* an item value that String() cannot convert
Requests == {RequestRecord(b[1], b[2], b[3], b[4]) : b \in RequestBodies}

(* ---------- the order of the calls inside a handler ---------- *)
\* A handler runs as one step; `last.steps` lists the calls it made, in the
\* order of the statements of the code.
\* /send-template: findPlaceholders(tpl) and the filter for missing values
ValidationSteps == <<"findPlaceholders">>
\* sendTemplate: substitutePlaceholders, buildDataItems, DataMessageRef.builder...build()
SubstitutionSteps == <<"substitutePlaceholders">>
TemplateSteps(buildThrown) ==
    SubstitutionSteps \o <<"buildDataItems">> \o (IF buildThrown THEN <<>> ELSE <<"build">>)
\* catch (e) { clearTimeout(to); pendingReplies.delete(ctx); reject(e); }
CatchSteps == <<"clearTimeout", "delete", "reject">>

\* faulty variant: the message is sent before the entry is registered
WaitSteps_SendFirst(failed) ==
    <<"send", "setTimeout", "set">> \o (IF failed THEN CatchSteps ELSE <<>>)

\* sendAndWaitIfNeeded, waitForReply: setTimeout, pendingReplies.set, conn.send
WaitSteps(failed) ==
    <<"setTimeout", "set", "send">> \o (IF failed THEN CatchSteps ELSE <<>>)
\* sendAndWaitIfNeeded, no wait: conn.send
NoWaitSteps == <<"send">>
\* trx-complete handler: clearTimeout, entry.resolve, pendingReplies.delete
HandlerSteps == <<"clearTimeout", "resolve", "delete">>
\* timeout callback: pendingReplies.delete, reject
TimeoutSteps == <<"delete", "reject">>

\* pendingReplies after the calls `steps` of a handler for context ctx, made
\* on the table tbl; o is the waited send a `set` registers
RECURSIVE TableAfter(_, _, _, _)
TableAfter(steps, tbl, ctx, o) ==
    IF Len(steps) = 0 THEN tbl
    ELSE LET before == TableAfter(SubSeq(steps, 1, Len(steps) - 1), tbl, ctx, o)
             step == steps[Len(steps)]
         IN CASE step = "set" -> MapSet(before, ctx, o)
              [] step = "delete" -> MapDelete(before, ctx)
              [] OTHER -> before

\* pendingReplies at the moment call i of `steps` is made
TableAt(steps, i, tbl, ctx, o) == TableAfter(SubSeq(steps, 1, i - 1), tbl, ctx, o)

\* the calls of a request that is answered by one of the early returns:
\* only the last of them comes after the search for placeholders
EarlySteps(early) ==
    IF early.error = "Missing template values" THEN ValidationSteps ELSE <<>>

\* the part of `last` that describes the request
HttpLast(rq) ==
    [NoLast EXCEPT !.kind = "http", !.name = rq.name, !.inline = rq.inline,
                   !.values = rq.values, !.from = rq.from,
                   !.status = rq.early.status, !.error = rq.early.error,
                   !.missing = rq.early.missing,
                   !.steps = EarlySteps(rq.early)]

\* faulty variant: the entry is registered whether or not the send waits
Register_Always(tbl, waitForReply, ctx, o) == MapSet(tbl, ctx, o)

\* if (waitForReply) { ... pendingReplies.set(ctx, { resolve, timeout: to }) ... }
Register(tbl, waitForReply, ctx, o) ==
    IF waitForReply THEN MapSet(tbl, ctx, o) ELSE tbl

\* faulty variant: the catch block leaves the entry in the table
CatchTable_Keep(tbl, ctx) == tbl

\* catch (e) { clearTimeout(to); pendingReplies.delete(ctx); reject(e); }
CatchTable(tbl, ctx) == MapDelete(tbl, ctx)
CatchTimers(tm, to) == clearTimeout(tm, to)

\* One POST /send-template: the handler, sendTemplate and
\* sendAndWaitIfNeeded up to the point where the handler awaits the promise
\* (waited send) or has answered.  ctx is the context the transport gives
\* the message, thrown what conn.send throws.  A request that does not
\* get as far as DataMessageRef.builder uses no context.
SendTemplate(rq, ctx, thrown) ==
    LET msg == [rq.msg EXCEPT !.context = ctx]
        wait == msg.replyExpected
        conn == ConnOf(rq.from)
        o == nops + 1
        failed == thrown # ThrowNone
        registered == Register(pendingReplies, wait, ctx, o)
        armed == [timer EXCEPT ![o] = "armed"]
        \* the promise of the async function (not waited) or of new Promise (waited)
        p == IF failed THEN Settle(PendingPromise, "rejected", ErrorValue(thrown))
             ELSE IF wait THEN PendingPromise
             ELSE Settle(PendingPromise, "resolved", SentAck)
        r == IF p.state = "pending" THEN NoResp ELSE AwaitResp(p)
    IN
    IF ~Proceeds(rq.early)
    THEN /\ ctx = 0 /\ thrown = ThrowNone
         /\ last' = HttpLast(rq)
         /\ UNCHANGED <<pendingReplies, nops, info, promise, calls, timer, trx, resp, replied>>
    ELSE IF rq.buildThrown
    THEN \* buildDataItems throws: sendTemplate rejects before a message exists
         /\ ctx = 0 /\ thrown = ThrowNone
         /\ last' = [HttpLast(rq) EXCEPT !.status = CatchResp(ConversionError).status,
                                         !.error = CatchResp(ConversionError).error,
                                         !.substituted = rq.substituted,
                                         !.steps = ValidationSteps \o TemplateSteps(TRUE)]
         /\ UNCHANGED <<pendingReplies, nops, info, promise, calls, timer, trx, resp, replied>>
    ELSE /\ ctx \in FreshContexts(conn)
         /\ wait => nops < MaxOps
         /\ last' = [HttpLast(rq) EXCEPT
                       !.status = IF rq.early.status # 0 THEN rq.early.status ELSE r.status,
                       !.error = IF rq.early.status # 0 THEN rq.early.error ELSE r.error,
                       !.result = r.result,
                       !.sendCalls = 1, !.wait = wait, !.timeoutMs = rq.timeoutMs,
                       !.thrown = thrown, !.conn = conn, !.ctx = ctx,
                       !.op = IF wait THEN o ELSE 0,
                       !.hit = ctx \in DOMAIN pendingReplies,
                       !.substituted = rq.substituted, !.msg = msg,
                       !.steps = ValidationSteps \o TemplateSteps(FALSE)
                                 \o (IF wait THEN WaitSteps(failed) ELSE NoWaitSteps)]
         /\ pendingReplies' = IF wait /\ failed THEN CatchTable(registered, ctx)
                              ELSE registered
         /\ IF ~wait
            THEN UNCHANGED <<nops, info, promise, calls, timer, trx, resp, replied>>
            ELSE /\ nops' = o
                 /\ info' = [info EXCEPT ![o] = [conn |-> conn, ctx |-> ctx]]
                 /\ promise' = [promise EXCEPT ![o] = p]
                 /\ calls' = [calls EXCEPT ![o] = IF failed THEN 1 ELSE 0]
                 /\ timer' = IF failed THEN CatchTimers(armed, o) ELSE armed
                 /\ trx' = IF failed THEN trx
                           ELSE trx \cup {[conn |-> conn, ctx |-> ctx, primary |-> o]}
                 /\ resp' = [resp EXCEPT ![o] = r]
                 /\ UNCHANGED replied

(* ---------- conn.on('trx-complete', (primary, reply, tc) => ...) ---------- *)
\* if (ctx && pendingReplies.has(ctx))
TrxMatches(tbl, ctx) == ctx # 0 /\ ctx \in DOMAIN tbl

\* pendingReplies.get(ctx)
MapGet(tbl, ctx) == tbl[ctx]

\* faulty variant: the handler does not cancel the timeout
HandlerTimers_NoClear(tm, entry) == tm

\* clearTimeout(entry.timeout) in the handler
HandlerTimers(tm, entry) == clearTimeout(tm, entry.timeout)

\* pendingReplies.delete(ctx) in the handler
HandlerTable(tbl, ctx) == MapDelete(tbl, ctx)

\* The transport t.conn reports the reply to the open transaction t: the
\* event carries the primary message of t and the reply to it.
TrxComplete(t) ==
    LET ctx == t.ctx
        hit == TrxMatches(pendingReplies, ctx)
        entry == MapGet(pendingReplies, ctx)
        o == entry.resolve
        p == Settle(promise[o], "resolved", ReplyResult(t.primary, t.primary))
    IN
    /\ t \in trx
    /\ trx' = trx \ {t}
    /\ replied' = replied \cup {ctx}
    /\ last' = [NoLast EXCEPT !.kind = "trx-complete", !.conn = t.conn, !.ctx = ctx,
                              !.op = t.primary, !.hit = ctx \in DOMAIN pendingReplies,
                              !.steps = IF hit THEN HandlerSteps ELSE <<>>]
    /\ IF hit
       THEN /\ timer' = HandlerTimers(timer, entry)
            /\ calls' = [calls EXCEPT ![o] = @ + 1]
            /\ promise' = [promise EXCEPT ![o] = p]
            /\ resp' = IF promise[o].state = "pending"
                       THEN [resp EXCEPT ![o] = AwaitResp(p)] ELSE resp
            /\ pendingReplies' = HandlerTable(pendingReplies, ctx)
       ELSE UNCHANGED <<pendingReplies, promise, calls, timer, resp>>
    /\ UNCHANGED <<nops, info>>

\* The transport gives up the open transaction t (its own reply timeout);
\* no handler of the server listens to that.
TrxExpire(t) ==
    /\ t \in trx
    /\ trx' = trx \ {t}
    /\ last' = [NoLast EXCEPT !.kind = "trx-expire", !.conn = t.conn, !.ctx = t.ctx,
                              !.op = t.primary]
    /\ UNCHANGED <<pendingReplies, nops, info, promise, calls, timer, resp, replied>>

(* ---------- the setTimeout callback of a waited send ---------- *)
\* faulty variant: the callback leaves the entry in the table
TimeoutTable_Keep(tbl, ctx) == tbl

\* pendingReplies.delete(ctx) in the callback
TimeoutTable(tbl, ctx) == MapDelete(tbl, ctx)

\* () => { pendingReplies.delete(ctx); reject(new Error('T3 timeout or no reply')); }
TimeoutFire(o) ==
    LET p == Settle(promise[o], "rejected", ErrorValue(TimeoutMessage)) IN
    /\ o \in 1..nops
    /\ timer[o] = "armed"
    /\ timer' = [timer EXCEPT ![o] = "fired"]
    /\ pendingReplies' = TimeoutTable(pendingReplies, info[o].ctx)
    /\ calls' = [calls EXCEPT ![o] = @ + 1]
    /\ promise' = [promise EXCEPT ![o] = p]
    /\ resp' = IF promise[o].state = "pending"
               THEN [resp EXCEPT ![o] = AwaitResp(p)] ELSE resp
    /\ last' = [NoLast EXCEPT !.kind = "timeout", !.conn = info[o].conn,
                              !.ctx = info[o].ctx, !.op = o,
                              !.hit = info[o].ctx \in DOMAIN pendingReplies,
                              !.steps = TimeoutSteps]
    /\ UNCHANGED <<nops, info, trx, replied>>

(* ---------- specification ---------- *)
Request ==
    /\ \E rq \in Requests, ctx \in Tokens, thrown \in Throws : SendTemplate(rq, ctx, thrown)
    /\ UNCHANGED <<substVars, buildVars>>
Reply == (\E t \in trx : TrxComplete(t)) /\ UNCHANGED <<substVars, buildVars>>
Expire == (\E t \in trx : TrxExpire(t)) /\ UNCHANGED <<substVars, buildVars>>
Timeout == (\E o \in Ops : TimeoutFire(o)) /\ UNCHANGED <<substVars, buildVars>>

Next == Request \/ Reply \/ Expire \/ Timeout

Spec == Init /\ [][Next]_vars

\* Timers are run by the Node event loop: an armed timer that is never
\* cleared does fire.
FairSpec == Spec /\ \A o \in Ops : WF_vars(TimeoutFire(o) /\ UNCHANGED <<substVars, buildVars>>)

(* ---------- substitutePlaceholders called on its own ---------- *)
kA == <<"a">>
kATrail == <<"a", " ">>
kB == <<"b">>
tokA == <<"{", "{", "a", "}", "}">>
tokASpaced == <<"{", "{", " ", "a", " ", "}", "}">>
tokB == <<"{", "{", "b", "}", "}">>
sEmbedded == <<"x", "{", "{", "a", "}", "}">>

\* the leaves of the templates: strings that are a token, with and without
\* white space, a string that only contains one, a plain string, and the
\* scalars of JSON
SubstLeaves ==
    {Str(tokA), Str(tokASpaced), Str(tokB), Str(sEmbedded), Str(sA), Num(7), Bool(TRUE), Null}

\* the arrays of up to n elements of S
ArraysOver(S, n) == {Arr(q) : q \in UNION {[1..m -> S] : m \in 0..n}}
\* the objects whose keys are among K, with values in S
ObjectsOver(K, S) == {Obj(r) : r \in UNION {[D -> S] : D \in SUBSET K}}

ObjectKeys == {"p", "__proto__"}

NestedTemplates ==
    {TplS1F1,
     Arr(<<Arr(<<Str(tokA)>>), Obj([p |-> Arr(<<Str(tokA), Num(7)>>)])>>),
     Obj([p |-> Obj([q |-> Str(tokA), r |-> Bool(FALSE)]), s |-> Arr(<<Null, Str(tokB)>>)])}

SubstTemplates ==
    SubstLeaves \cup ArraysOver(SubstLeaves, MaxLen)
                \cup ObjectsOver(ObjectKeys, SubstLeaves) \cup NestedTemplates

SubstTables ==
    {EmptyTable,
     kA :> Num(5),
     kA :> Str(sHello),
     kA :> Arr(<<Num(1), Bool(FALSE)>>),
     kA :> Obj([x |-> Num(1)]),
     (kA :> Null) @@ (kB :> Bool(TRUE)),
     kATrail :> Num(5),
     kMsg :> Str(sHello)}

\* faulty variant: the substitution is written into the template
substituteCall_InPlace(obj, values) ==
    [obj |-> substitutePlaceholders(obj, values), values |-> values,
     result |-> substitutePlaceholders(obj, values)]

\* One call substitutePlaceholders(obj, values): the two arguments as the
\* call leaves them and the value it returns.  The function only reads obj
\* and values (match, map, Object.entries, hasOwnProperty, values[k]) and
\* writes to the `out` objects it creates.
substituteCall(obj, values) ==
    [obj |-> obj, values |-> values, result |-> substitutePlaceholders(obj, values)]

SubstInit ==
    /\ ServerInit /\ BuildIdle
    /\ argTemplate \in SubstTemplates
    /\ argValues \in SubstTables
    /\ returned = <<>>
    /\ found = <<>>

Substitute ==
    LET c == substituteCall(argTemplate, argValues) IN
    /\ Len(returned) < MaxCalls
    /\ argTemplate' = c.obj
    /\ argValues' = c.values
    /\ returned' = Append(returned, c.result)
    /\ UNCHANGED <<serverVars, buildVars, found>>

\* One call findPlaceholders(obj) on the same template: the set it returns.
Find ==
    /\ Len(found) < MaxCalls
    /\ found' = Append(found, findPlaceholders(argTemplate))
    /\ UNCHANGED <<serverVars, buildVars, argTemplate, argValues, returned>>

SubstNext == Substitute \/ Find

SubstSpec == SubstInit /\ [][SubstNext]_vars

(* ---------- buildDataItems called on its own ---------- *)
sN == <<"n">>
sFlags == <<"f", "l", "a", "g", "s">>
sX == <<"x">>
tagLowerU2 == <<"u", "2">>
tagUnknown == <<"Q", "9">>

\* descriptors { type, name, value } and { type, name }, { name, value }, { ..., size }
Desc(type, name, value) == Obj([type |-> Str(type), name |-> Str(name), value |-> value])
DescNoValue(type, name) == Obj([type |-> Str(type), name |-> Str(name)])
DescNoType(name, value) == Obj([name |-> Str(name), value |-> value])
DescSized(type, name, value, size) ==
    Obj([type |-> Str(type), name |-> Str(name), value |-> value, size |-> Num(size)])

\* an object with an own property toString, as JSON can carry it
ObjToString == Obj([toString |-> Num(1)])

NumericTags == {tagU2, tagU4, tagI2, tagI4, tagF4, tagF8, tagLowerU2}
NumericValues == {Num(5), Str(<<"1", "2">>), Str(<<"a", "b">>), Null, Bool(TRUE)}
NumericDescs ==
    {Desc(t, sN, v) : t \in NumericTags, v \in NumericValues}
    \cup {DescNoValue(t, sN) : t \in NumericTags}

BoolDescs == {Desc(tagBOOL, sN, v) : v \in {Bool(TRUE), Num(0), Str(<<>>), Str(sX)}}

BoolArrayElements == {Bool(TRUE), Bool(FALSE), Num(1), Num(0)}
BoolArrayDescs ==
    {Desc(tagBOOLARRAY, sFlags, v) :
        v \in ArraysOver(BoolArrayElements, MaxLen) \cup {Str(sHello), Null}}

\* the strings of up to n characters of the alphabet A
StringsOver(A, n) == UNION {[1..m -> A] : m \in 0..n}
BinaryAlphabet == {"a", "F", "1", "z", ","}
BinaryValues ==
    {Str(q) : q \in StringsOver(BinaryAlphabet, MaxLen)}
    \cup {Str(<<"0", "a", "-", "f", "f">>), Str(<<"1", ",", " ", "2", ",", ",", "x">>),
          Arr(<<>>), Arr(<<Num(0), Num(5), Num(6), Num(9), Num(255)>>),
          Arr(<<Num(256), Str(<<"7">>)>>), Num(5), Null}
BinaryDescs ==
    {Desc(tagB, sN, v) : v \in BinaryValues}
    \cup {Desc(tagBIN, sN, Str(<<"0", "a", "F", "F">>)), DescNoValue(tagBIN, sN)}

TextValues ==
    {Str(sHello), Str(<<>>), Num(5), Null, Bool(FALSE), Arr(<<Num(1), Null, Num(2)>>),
     Obj([x |-> Num(1)]), ObjToString}
TextDescs ==
    {Desc(t, sPayload, v) : t \in {tagA, <<"a">>, tagUnknown}, v \in TextValues}
    \cup {DescNoType(sPayload, v) : v \in TextValues}
    \cup {DescNoValue(tagA, sPayload), DescSized(tagA, sPayload, Str(sHello), 3),
          DescSized(tagA, sPayload, Str(sHello), 0), DescSized(tagUnknown, sPayload, Num(5), 7),
          Obj([name |-> Str(sPayload), value |-> Str(<<>>), size |-> Num(2)])}

ListDescs ==
    {Desc(tagLIST, sN, v) :
        v \in {Arr(<<>>),
               Arr(<<Desc(tagA, sPayload, Str(sHello))>>),
               Arr(<<Desc(tagU2, sN, Num(5)),
                     Desc(tagLIST, sX, Arr(<<Desc(tagBOOL, sN, Bool(TRUE))>>))>>),
               Arr(<<Desc(tagLIST, sN,
                          Arr(<<Desc(tagLIST, sX, Arr(<<Desc(tagI4, sN, Num(7)),
                                                        Desc(tagA, sX, Str(sHello))>>)),
                                Desc(tagB, sX, Str(<<"0", "a">>))>>)),
                     Desc(tagBOOL, sX, Num(0)),
                     Desc(tagLIST, sX, Arr(<<>>))>>),
               Arr(<<Num(5)>>),
               Arr(<<Null>>),
               Str(sHello)}}
    \cup {DescNoValue(tagLIST, sN)}

BuildItemLists ==
    {Arr(<<d>>) : d \in NumericDescs \cup BoolDescs \cup BoolArrayDescs \cup BinaryDescs
                          \cup TextDescs \cup ListDescs}
    \cup {Arr(<<>>),
          Arr(<<Desc(tagI2, sN, Num(1)), Desc(tagBOOLARRAY, sFlags, Arr(<<Num(1), Num(0)>>)),
                Desc(tagB, sX, Str(<<"0", "a">>))>>),
          Arr(<<Desc(tagA, sPayload, Str(sHello)), Desc(tagF4, sN, Num(7))>>),
          Arr(<<Desc(tagB, sN, Str(<<"0", "a", "-", "f", "f">>)),
                Desc(tagB, sN, Str(<<"a", "b", "c">>)),
                Desc(tagBIN, sN, Arr(<<Num(0), Num(5), Num(6), Num(9), Num(255)>>)),
                Desc(tagBIN, sN, Str(<<"1", ",", " ", "2", ",", ",", "x">>))>>)}

\* the builders of DataItemRef that buildDataItems can ask for on these
\* descriptors: those of the chains of their types
RECURSIVE ChainEncoders(_)
ChainEncoders(items) ==
    UNION {LET it == items.v[i]
               t == IF it.k = "obj" /\ "type" \in DOMAIN it.v /\ it.v.type.k = "str"
                    THEN ToUpperCase(it.v.type.v) ELSE tagA
           IN CASE t = tagU2 -> {"u2"}
                [] t = tagU4 -> {"u4"}
                [] t = tagI2 -> {"i2", "i4"}
                [] t = tagI4 -> {"i4"}
                [] t = tagF4 -> {"f4"}
                [] t = tagF8 -> {"f8"}
                [] t = tagBOOL -> {"bool"}
                [] t = tagBOOLARRAY -> {"boolArray", "list", "bool"}
                [] t \in {tagB, tagBIN} -> {"b"}
                [] t = tagLIST ->
                     {"list"} \cup (IF "value" \in DOMAIN it.v /\ it.v.value.k = "arr"
                                    THEN ChainEncoders(it.v.value) ELSE {})
                [] OTHER -> {}
           : i \in DOMAIN items.v}

\* DataItemRef: every subset of the builders of the chains, with none or
\* with all of the builders the descriptors cannot ask for
EncoderSets(items) ==
    {R \cup X : R \in SUBSET ChainEncoders(items),
                X \in {{}, EncoderNames \ ChainEncoders(items)}}

\* One call buildDataItems(items, DataItemRef): the array `items` as the
\* call leaves it and the outcome.  The function only reads the descriptors.
buildCall(items, E) == [items |-> items, result |-> buildDataItems(items, E)]

BuildInit ==
    /\ ServerInit /\ SubstIdle
    /\ argItems \in BuildItemLists
    /\ argEncoders \in EncoderSets(argItems)
    /\ built = <<>>

Build ==
    LET c == buildCall(argItems, argEncoders) IN
    /\ Len(built) < MaxCalls
    /\ argItems' = c.items
    /\ built' = Append(built, c.result)
    /\ UNCHANGED <<serverVars, substVars, argEncoders>>

BuildNext == Build

BuildSpec == BuildInit /\ [][BuildNext]_vars

(* ---------- the other send paths ---------- *)
\* The first revision of the server (src/src/server.ts, lines 1-250) has
\* the same pendingReplies, trx-complete handler and sendAndWaitIfNeeded
\* and the endpoints /send, /send-s1f1 and /send-custom; the other revision
\* of the template manager (src/public/app.js, lines 76-208) has its own
\* sendTemplate.
Min(a, b) == IF a <= b THEN a ELSE b

kWaitReply == <<"w", "a", "i", "t", "R", "e", "p", "l", "y">>
sPlaceholderPrefix == <<"p", "l", "a", "c", "e", "h", "o", "l", "d", "e", "r", "_">>

\* .replyExpected(Boolean(waitReply))
ReplyExpectedFlag(waitReply) == ToBoolean(waitReply)

\* faulty variant: the handler always waits
WaitArgument_Always(waitReply) == TRUE

\* sendAndWaitIfNeeded(conn, msg, Boolean(waitReply), 10000)
WaitArgument(waitReply) == ToBoolean(waitReply)

\* sendAndWaitIfNeeded(conn, msg, waitForReply, timeoutMs), awaited by its
\* caller inside try/catch; ctx is the context of msg, l describes the
\* request and the calls made so far, thrown is what conn.send throws
SendAndWaitIfNeeded(conn, msg, waitForReply, ctx, thrown, l) ==
    /\ ctx \in FreshContexts(conn)
    /\ \E wait \in {waitForReply} :
          LET o == nops + 1
              failed == thrown # ThrowNone
              registered == Register(pendingReplies, wait, ctx, o)
              armed == [timer EXCEPT ![o] = "armed"]
              p == IF failed THEN Settle(PendingPromise, "rejected", ErrorValue(thrown))
                   ELSE IF wait THEN PendingPromise
                   ELSE Settle(PendingPromise, "resolved", SentAck)
              r == IF p.state = "pending" THEN NoResp ELSE AwaitResp(p)
          IN
          /\ wait => nops < MaxOps
          /\ last' = [l EXCEPT !.status = r.status, !.error = r.error,
                               !.result = r.result,
                               !.sendCalls = 1, !.wait = wait, !.thrown = thrown,
                               !.conn = conn, !.ctx = ctx,
                               !.op = IF wait THEN o ELSE 0,
                               !.hit = ctx \in DOMAIN pendingReplies,
                               !.msg = msg,
                               !.steps = @ \o (IF wait THEN WaitSteps(failed)
                                               ELSE NoWaitSteps)]
          /\ pendingReplies' = IF wait /\ failed THEN CatchTable(registered, ctx)
                               ELSE registered
          /\ IF ~wait
             THEN UNCHANGED <<nops, info, promise, calls, timer, trx, resp, replied>>
             ELSE /\ nops' = o
                  /\ info' = [info EXCEPT ![o] = [conn |-> conn, ctx |-> ctx]]
                  /\ promise' = [promise EXCEPT ![o] = p]
                  /\ calls' = [calls EXCEPT ![o] = IF failed THEN 1 ELSE 0]
                  /\ timer' = IF failed THEN CatchTimers(armed, o) ELSE armed
                  /\ trx' = IF failed THEN trx
                            ELSE trx \cup {[conn |-> conn, ctx |-> ctx, primary |-> o]}
                  /\ resp' = [resp EXCEPT ![o] = r]
                  /\ UNCHANGED replied

\* a request answered before any message is built
Answered(l, status, error) ==
    /\ last' = [l EXCEPT !.status = status, !.error = error]
    /\ UNCHANGED <<pendingReplies, nops, info, promise, calls, timer, trx, resp, replied>>

\* What the handlers of /send, /send-s1f1 and /send-custom and the other
\* sendTemplate compute from a request before a context is assigned
\* (context 0 is a stand-in): the early answer, whether the conversion of
\* the items throws, the message, and the argument waitForReply.
PathRecord(path, from, early, buildThrown, msg, wait, steps) ==
    [path |-> path, from |-> from, early |-> early, buildThrown |-> buildThrown,
     msg |-> msg, wait |-> wait, steps |-> steps]

\* POST /send and POST /send-s1f1 (the two handlers have the same body):
\* { from, text, waitReply }
SendTextRecord(path, from, text, waitReply) ==
    IF from = "none" \/ ~ToBoolean(text)
    THEN PathRecord(path, from, "require from and text", FALSE, NoMsg, FALSE, <<>>)
    ELSE PathRecord(path, from, "", FALSE,
             [device |-> Num(1), stream |-> Num(1), func |-> Num(1),
              replyExpected |-> ReplyExpectedFlag(waitReply),
              context |-> 0,
              items |-> <<TextItem(Str(sPayload), text.v,
                                   Num(Max(1, Min(255, Len(text.v)))))>>],
             WaitArgument(waitReply), <<"build">>)

\* items || [{ type: 'A', name: 'payload', value: 'payload' }]
CustomItems(items) == OrElse(items, Arr(<<Desc(tagA, sPayload, Str(sPayload))>>))

\* POST /send-custom: { from, stream, func, items, waitReply }.  Its
\* buildDataItems (server.ts:120-147) builds text descriptors, the only ones
\* the requests of the model hold, by the same code as the template manager.
SendCustomRecord(from, stream, func, items, waitReply) ==
    LET b == buildDataItems(CustomItems(items), DataItem) IN
    IF from = "none" \/ stream.k \in {"undef", "null"} \/ func.k \in {"undef", "null"}
    THEN PathRecord("send-custom", from, "require from, stream, func", FALSE, NoMsg,
                    FALSE, <<>>)
    ELSE IF b.thrown
    THEN PathRecord("send-custom", from, "", TRUE, NoMsg, FALSE, <<"buildDataItems">>)
    ELSE PathRecord("send-custom", from, "", FALSE,
             [device |-> Num(1), stream |-> ToNumber(stream), func |-> ToNumber(func),
              replyExpected |-> ReplyExpectedFlag(waitReply),
              context |-> 0,
              items |-> b.items],
             WaitArgument(waitReply), <<"buildDataItems", "build">>)

\* obj.match(/^placeholder_(.+)$/)
IsPrefixed(s) ==
    /\ Len(s) > Len(sPlaceholderPrefix)
    /\ SubSeq(s, 1, Len(sPlaceholderPrefix)) = sPlaceholderPrefix

\* substitutePlaceholders of the other revision: a token or a string
\* placeholder_key is replaced when values[k] !== undefined
RECURSIVE substitutePlaceholdersAlt(_, _)
substitutePlaceholdersAlt(obj, values) ==
    CASE obj.k = "str" ->
           IF IsToken(obj.v)
           THEN IF Lookup(values, TokenKey(obj.v)).k # "undef"
                THEN Lookup(values, TokenKey(obj.v)) ELSE obj
           ELSE IF IsPrefixed(obj.v)
           THEN LET k == SubSeq(obj.v, Len(sPlaceholderPrefix) + 1, Len(obj.v)) IN
                IF Lookup(values, k).k # "undef" THEN Lookup(values, k) ELSE obj
           ELSE obj
      [] obj.k = "arr" ->
           Arr([i \in DOMAIN obj.v |-> substitutePlaceholdersAlt(obj.v[i], values)])
      [] obj.k = "obj" ->
           Obj([f \in AssignedKeys(DOMAIN obj.v) |->
                  substitutePlaceholdersAlt(obj.v[f], values)])
      [] OTHER -> obj

\* .replyExpected(Boolean(values.waitReply || substituted.replyExpected || false))
AltReplyExpected(substituted, values) ==
    ToBoolean(OrElse(OrElse(Lookup(values, kWaitReply), Get(substituted, "replyExpected")),
                     Bool(FALSE)))

\* const wait = Boolean(values.waitReply || substituted.replyExpected)
AltWait(substituted, values) ==
    ToBoolean(OrElse(Lookup(values, kWaitReply), Get(substituted, "replyExpected")))

\* sendTemplate of the other revision, called with a template, the values
\* and the connection of `from`
SendTemplateAltRecord(tpl, values, from) ==
    LET substituted == substitutePlaceholdersAlt(tpl, values)
        b == buildDataItems(OrElse(Get(substituted, "items"), Arr(<<>>)), DataItem)
    IN
    IF b.thrown
    THEN PathRecord("sendTemplate-alt", from, "", TRUE, NoMsg, FALSE,
                    <<"substitutePlaceholders", "buildDataItems">>)
    ELSE PathRecord("sendTemplate-alt", from, "", FALSE,
             [device |-> Num(1),
              stream |-> ToNumber(OrElse(OrElse(Get(substituted, "stream"),
                                                Get(tpl, "stream")), Num(1))),
              func |-> ToNumber(OrElse(OrElse(Get(substituted, "func"),
                                              Get(tpl, "func")), Num(1))),
              replyExpected |-> AltReplyExpected(substituted, values),
              context |-> 0,
              items |-> b.items],
             AltWait(substituted, values),
             <<"substitutePlaceholders", "buildDataItems", "build">>)

\* A handler of these paths: the early answer 400, the answer 500 of the
\* catch when the conversion throws, or the message with its context and
\* sendAndWaitIfNeeded.
SendPath(rq, ctx, thrown) ==
    LET l == [NoLast EXCEPT !.kind = rq.path, !.from = rq.from, !.steps = rq.steps] IN
    IF rq.early # ""
    THEN ctx = 0 /\ thrown = ThrowNone /\ Answered(l, 400, rq.early)
    ELSE IF rq.buildThrown
    THEN /\ ctx = 0 /\ thrown = ThrowNone
         /\ Answered(l, CatchResp(ConversionError).status, CatchResp(ConversionError).error)
    ELSE SendAndWaitIfNeeded(ConnOf(rq.from), [rq.msg EXCEPT !.context = ctx], rq.wait,
                             ctx, thrown, l)

\* ---- the requests of these paths ----
\* /send bodies: <<from, text, waitReply>>; waitReply is absent, a boolean,
\* or a value that is only truthy or falsy
SendBodies ==
    {<<"host", Undefined, Bool(TRUE)>>,
     <<"host", Str(sHello), Bool(TRUE)>>,
     <<"device", Str(sHello), Undefined>>,
     <<"device", Str(sHello), Num(1)>>,
     <<"host", Str(sHello), Str(<<>>)>>}
SendRequests == {SendTextRecord("send", b[1], b[2], b[3]) : b \in SendBodies}

\* /send-s1f1 bodies
S1F1Bodies ==
    {<<"none", Str(sHello), Bool(TRUE)>>,
     <<"device", Str(sHello), Bool(TRUE)>>,
     <<"host", Str(sHello), Bool(FALSE)>>}
S1F1Requests == {SendTextRecord("send-s1f1", b[1], b[2], b[3]) : b \in S1F1Bodies}

\* conn.send throws nothing or an error
PathThrows == {ThrowNone, "socket closed"}

\* /send-custom bodies: <<from, stream, func, items, waitReply>>
CustomBodies ==
    {<<"host", Num(1), Undefined, Undefined, Bool(TRUE)>>,
     <<"host", Num(6), Num(11), Undefined, Num(1)>>,
     <<"device", Str(<<"1">>), Num(3), Arr(<<Desc(tagA, sN, Num(5))>>), Undefined>>,
     <<"device", Num(1), Num(1), Arr(<<Desc(tagA, sN, ObjToString)>>), Bool(TRUE)>>}
CustomRequests == {SendCustomRecord(b[1], b[2], b[3], b[4], b[5]) : b \in CustomBodies}

\* a template that names its payload with a string placeholder_msg
TplPrefixed ==
    Obj([stream |-> Num(1), func |-> Num(1), replyExpected |-> Num(1),
         items |-> Arr(<<Item(sA, sPayload, Str(sPlaceholderPrefix \o kMsg))>>)])

\* calls of the other sendTemplate: <<template, values, from>>
AltCalls ==
    {<<TplS1F1, kMsg :> Str(sHello), "host">>,
     <<TplPlain, EmptyTable, "device">>,
     <<TplPlain, (kWaitReply :> Bool(TRUE)) @@ (kTimeoutMs :> Num(50)), "device">>,
     <<TplPrefixed, (kMsg :> Str(sHello)) @@ (kWaitReply :> Bool(FALSE)), "host">>,
     <<TplObject, EmptyTable, "host">>}
AltRequests == {SendTemplateAltRecord(c[1], c[2], c[3]) : c \in AltCalls}

\* /send-template requests of the second revision
PathRequests ==
    {RequestRecord(b[1], b[2], b[3], b[4]) :
        b \in {<<"S1F1.json", "none", "msg", "host">>,
               <<"none", "plain", "reply", "host">>,
               <<"none", "device", "devNoReply", "device">>}}

PostSend ==
    /\ \E rq \in SendRequests, ctx \in Tokens, thrown \in PathThrows :
          SendPath(rq, ctx, thrown)
    /\ UNCHANGED <<substVars, buildVars>>
PostSendS1F1 ==
    /\ \E rq \in S1F1Requests, ctx \in Tokens, thrown \in PathThrows :
          SendPath(rq, ctx, thrown)
    /\ UNCHANGED <<substVars, buildVars>>
PostSendCustom ==
    /\ \E rq \in CustomRequests, ctx \in Tokens, thrown \in PathThrows :
          SendPath(rq, ctx, thrown)
    /\ UNCHANGED <<substVars, buildVars>>
TemplateAlt ==
    /\ \E rq \in AltRequests, ctx \in Tokens, thrown \in PathThrows :
          SendPath(rq, ctx, thrown)
    /\ UNCHANGED <<substVars, buildVars>>
PostSendTemplate ==
    /\ \E rq \in PathRequests, ctx \in Tokens, thrown \in PathThrows :
          SendTemplate(rq, ctx, thrown)
    /\ UNCHANGED <<substVars, buildVars>>

PathsNext ==
    \/ PostSend \/ PostSendS1F1 \/ PostSendCustom \/ TemplateAlt \/ PostSendTemplate
    \/ Reply \/ Expire \/ Timeout

PathsSpec == Init /\ [][PathsNext]_vars

(* ---------- vocabulary of the properties ---------- *)
\* the waited send o was rejected by its timeout callback
TimedOut(o) ==
    /\ timer[o] = "fired"
    /\ promise[o] = [state |-> "rejected", value |-> ErrorValue(TimeoutMessage)]

\* the waited send o was rejected because conn.send threw
DispatchFailed(o) == promise[o].state = "rejected" /\ timer[o] = "cleared"

\* the waited send o was resolved by a trx-complete event
Resolved(o) == promise[o].state = "resolved"

\* the transaction of the waited send o is still open in its transport:
\* no reply to it has been reported
TrxOpen(o) == \E t \in trx : t.primary = o

\* the step just taken was a POST /send-template that reached sendAndWaitIfNeeded
Dispatched(l) == l.kind = "http" /\ l.sendCalls > 0

(* ---------- C1 ---------- *)
\* C1: the promise of every waited send is settled exactly once, whatever
\* the order of the reply event, the timeout and a dispatch failure: as long
\* as neither resolve nor reject was called the promise is pending and its
\* timeout is armed (so it will be settled); otherwise exactly one call of
\* resolve or reject was made, and no second one follows.
C1_SettlesExactlyOnce ==
    \A o \in 1..nops :
        /\ calls[o] <= 1
        /\ calls[o] = 0 <=> (promise[o].state = "pending" /\ timer[o] = "armed")
        /\ calls[o] = 1 <=> (Resolved(o) \/ TimedOut(o) \/ DispatchFailed(o))
        /\ ~(Resolved(o) /\ timer[o] = "fired")

\* one send resolved by its reply, another one rejected by its timeout
C1_Witness ==
    \E a, b \in 1..nops :
        /\ Resolved(a) /\ promise[a].value.kind = "trx" /\ timer[a] = "cleared"
        /\ TimedOut(b)

(* ---------- C2 ---------- *)
\* C2: whenever a trx-complete event carries a context that has a live entry
\* in pendingReplies, whatever the number, the entry is removed, the timeout
\* of the entry is cancelled and the waiting send is resolved with the
\* primary and the reply of the event.
C2_ReplyResolvesLiveEntry ==
    [][(last'.kind = "trx-complete" /\ last'.ctx \in DOMAIN pendingReplies) =>
          LET o == pendingReplies[last'.ctx].resolve IN
          /\ last'.ctx \notin DOMAIN pendingReplies'
          /\ timer'[o] = "cleared"
          /\ promise'[o] = [state |-> "resolved",
                            value |-> ReplyResult(last'.op, last'.op)]]_vars

(* ---------- C3 ---------- *)
\* C3 as stated: once a waited send whose dispatch did not fail and whose
\* context no reply event has ever carried was rejected by its timeout, its
\* context is absent from pendingReplies from then on.  (Stated for the runs
\* that use one connection only.)
C3_AbsentForever ==
    \A o \in 1..nops :
        (/\ TimedOut(o)
         /\ info[o].ctx \notin replied
         /\ \A q \in 1..nops : info[q].conn = info[o].conn)
        => info[o].ctx \notin DOMAIN pendingReplies

\* C3 amended: a waited send whose dispatch did not fail is eventually
\* rejected by its timeout unless its timeout is cancelled, and a timeout is
\* only cancelled by a trx-complete event that carries the context of the
\* send; at the moment the timeout rejects it the context is absent from
\* pendingReplies, and a context that is absent stays absent until a later
\* waited send registers it again.
C3_TimesOutAndRemoved ==
    /\ \A o \in Ops : (timer[o] = "armed") ~> (TimedOut(o) \/ timer[o] = "cleared")
    /\ [][\A o \in Ops :
            (timer[o] = "armed" /\ timer'[o] = "cleared") =>
                (last'.kind = "trx-complete" /\ last'.ctx = info[o].ctx)]_vars
    /\ [][\A o \in Ops :
            (~TimedOut(o) /\ TimedOut(o)') =>
                info[o].ctx \notin DOMAIN pendingReplies']_vars
    /\ [][\A c \in Tokens :
            (c \notin DOMAIN pendingReplies /\ c \in DOMAIN pendingReplies') =>
                (Dispatched(last') /\ last'.wait /\ last'.ctx = c)]_vars

\* a send timed out without any reply, and its context is not in the table
C3_Witness ==
    \E o \in 1..nops :
        TimedOut(o) /\ info[o].ctx \notin replied /\ info[o].ctx \notin DOMAIN pendingReplies

(* ---------- C4 ---------- *)
\* C4: when conn.send throws in a waited send, then at the end of the call
\* the table has no entry for the context of the message, the timeout is
\* cancelled, the promise is rejected with the very error that was thrown,
\* and the entries of all other contexts are as they were; the cancelled
\* timeout never fires and the rejection stays.
C4_DispatchFailureRollsBack ==
    /\ [][(Dispatched(last') /\ last'.wait /\ last'.thrown # ThrowNone) =>
            /\ last'.ctx \notin DOMAIN pendingReplies'
            /\ timer'[last'.op] = "cleared"
            /\ calls'[last'.op] = 1
            /\ promise'[last'.op] = [state |-> "rejected",
                                     value |-> ErrorValue(last'.thrown)]
            /\ \A c \in Tokens \ {last'.ctx} :
                  /\ c \in DOMAIN pendingReplies <=> c \in DOMAIN pendingReplies'
                  /\ c \in DOMAIN pendingReplies => pendingReplies'[c] = pendingReplies[c]]_vars
    /\ [][\A o \in Ops :
            DispatchFailed(o) => (timer'[o] = "cleared" /\ promise'[o] = promise[o])]_vars

\* a dispatch failure while another request is pending
C4_Witness ==
    /\ Dispatched(last) /\ last.wait /\ last.thrown # ThrowNone
    /\ DispatchFailed(last.op)
    /\ \E c \in DOMAIN pendingReplies : c # last.ctx

(* ---------- C5 ---------- *)
\* C5: a send that does not wait calls conn.send once, arms no timeout and
\* leaves pendingReplies as it was; it is answered at once, with
\* { status: 'sent' } when conn.send returns.
C5_NoWaitLeavesTable ==
    [][(Dispatched(last') /\ ~last'.wait) =>
          /\ last'.sendCalls = 1
          /\ pendingReplies' = pendingReplies
          /\ timer' = timer
          /\ last'.status # 0
          /\ last'.thrown = ThrowNone =>
                (last'.status = 200 /\ last'.result = SentAck)]_vars

\* an acknowledged send that did not wait, while another request is pending
C5_Witness ==
    /\ Dispatched(last) /\ ~last.wait /\ last.result = SentAck
    /\ last.ctx \notin DOMAIN pendingReplies
    /\ DOMAIN pendingReplies # {}

(* ---------- C6 ---------- *)
\* the waited sends in flight on one connection carry pairwise distinct contexts
DistinctOnEachConnection ==
    \A a, b \in 1..nops :
        (/\ a # b /\ info[a].conn = info[b].conn
         /\ promise[a].state = "pending" /\ promise[b].state = "pending")
        => info[a].ctx # info[b].ctx

\* C6: with pairwise distinct contexts among the waited sends in flight on
\* a connection, the reply event of a send that is still waiting resolves
\* that send with its own primary and its own reply, in whatever order the
\* reply events come, and resolves no other send.
C6_EachResolvesWithOwnReply ==
    [][(/\ last'.kind = "trx-complete"
        /\ promise[last'.op].state = "pending"
        /\ DistinctOnEachConnection) =>
          /\ promise'[last'.op] = [state |-> "resolved",
                                   value |-> ReplyResult(last'.op, last'.op)]
          /\ \A o \in Ops \ {last'.op} : promise'[o] = promise[o]]_vars

(* ---------- C7 ---------- *)
\* C7: a reply event for a request that has already timed out settles
\* nothing and leaves pendingReplies as it is, and once a reply has resolved
\* a request its timeout never fires: it neither rejects the request nor
\* removes anything from pendingReplies.
C7_LoserIsNoOp ==
    /\ [][(last'.kind = "trx-complete" /\ TimedOut(last'.op)) =>
            (pendingReplies' = pendingReplies /\ promise' = promise /\ calls' = calls)]_vars
    /\ [][\A o \in Ops :
            Resolved(o) => (timer'[o] = "cleared" /\ promise'[o] = promise[o])]_vars

(* ---------- C8 ---------- *)
\* the request passed the checks that come before the placeholder check
ReachesPlaceholderCheck(l) ==
    /\ l.kind = "http"
    /\ ~(l.name = "none" /\ l.inline = "none")
    /\ l.from # "none"
    /\ RequestTemplate(l.name, l.inline).k # "null"

MissingValuesError(l) == l.status = 400 /\ l.error = "Missing template values"

\* C8: with P the placeholders found in the template and V the value table
\* of the request, /send-template answers `Missing template values` exactly
\* when P is not a subset of the keys of V, and when it does not, no
\* placeholder of the template is left in the substituted template.
C8_PlaceholderCompleteness ==
    ReachesPlaceholderCheck(last) =>
        LET P == findPlaceholders(RequestTemplate(last.name, last.inline))
            K == DOMAIN ValueTable(last.values)
        IN /\ MissingValuesError(last) <=> ~(P \subseteq K)
           /\ ~MissingValuesError(last) => findPlaceholders(last.substituted) \cap P = {}

(* ---------- C9 ---------- *)
\* C9: when /send-template answers with a validation error (400) or with
\* template-not-found (404), conn.send was not called for the request and
\* nothing of the correlation state changed: no entry was registered, no
\* timeout armed, no transaction opened.
C9_RejectedRequestSendsNothing ==
    [][(last'.kind = "http" /\ last'.status \in {400, 404}) =>
          /\ last'.sendCalls = 0
          /\ pendingReplies' = pendingReplies
          /\ timer' = timer
          /\ trx' = trx
          /\ nops' = nops]_vars

\* a request rejected for a missing value while another request is pending
C9_Witness ==
    /\ last.kind = "http" /\ MissingValuesError(last) /\ last.missing # {}
    /\ last.sendCalls = 0
    /\ DOMAIN pendingReplies # {}

(* ---------- C10 ---------- *)
\* C10: the answer to a request that timed out differs from the answer to a
\* request whose dispatch failed, whatever error the transport threw.
C10_TimeoutDistinctFromDispatchFailure ==
    \A a, b \in 1..nops :
        (TimedOut(a) /\ DispatchFailed(b)) =>
            (resp[a].status # resp[b].status \/ resp[a].error # resp[b].error)

(* ---------- C11 ---------- *)
\* the answer of status st is one structured result
Structured(st, error, result) ==
    \/ st = 200 /\ error = "" /\ result.kind \in {"sent", "trx"}
    \/ st \in {400, 404, 500} /\ error # "" /\ result = NoValue

\* C11: every /send-template request gets exactly one structured result:
\* { ok: true, result } or { ok: false, error }.  A request is answered in
\* the step that handles it unless it waits for a reply; a waiting request
\* is answered exactly when its promise settles, its answer never changes
\* afterwards, and it always is answered eventually.  Errors thrown by
\* conn.send, in the waited and in the not-waited path, and timeouts are
\* answered as { ok: false, error }.
C11_OneStructuredResult ==
    /\ [](last.kind = "http" =>
            \/ Structured(last.status, last.error, last.result)
            \/ last.status = 0 /\ last.wait /\ promise[last.op].state = "pending")
    /\ [](\A o \in 1..nops :
            /\ resp[o].status = 0 <=> promise[o].state = "pending"
            /\ resp[o].status # 0 =>
                  /\ Structured(resp[o].status, resp[o].error, resp[o].result)
                  /\ resp[o].ok <=> resp[o].status = 200
                  /\ resp[o].ok <=> promise[o].state = "resolved")
    /\ [][\A o \in Ops : resp[o].status # 0 => resp'[o] = resp[o]]_vars
    /\ [][(Dispatched(last') /\ last'.thrown # ThrowNone) =>
            (last'.status = 500 /\ last'.error = last'.thrown)]_vars
    /\ \A o \in Ops : (promise[o].state = "pending") ~> (resp[o].status # 0)

\* one request answered with the timeout error, one with a reply, and a
\* not-waited request just answered with the error conn.send threw
C11_Witness ==
    /\ \E a, b \in 1..nops :
          /\ TimedOut(a) /\ resp[a].status = 500 /\ resp[a].error = TimeoutMessage
          /\ Resolved(b) /\ resp[b].status = 200 /\ resp[b].result.kind = "trx"
    /\ Dispatched(last) /\ ~last.wait /\ last.thrown # ThrowNone /\ last.status = 500

(* ---------- C12 ---------- *)
\* C12: sendTemplate waits for a reply exactly when replyExpected is set in
\* the template or given in `values`, and hands sendAndWaitIfNeeded the
\* timeout values.timeoutMs when the caller supplies one, 10000 otherwise.
C12_WaitAndTimeoutFromValues ==
    Dispatched(last) =>
        LET tpl == RequestTemplate(last.name, last.inline)
            V == ValueTable(last.values)
        IN /\ last.wait <=>
                (\/ ToBoolean(Get(tpl, "replyExpected"))
                 \/ (kReplyExpected \in DOMAIN V /\ ToBoolean(V[kReplyExpected])))
           /\ last.timeoutMs = IF kTimeoutMs \in DOMAIN V THEN V[kTimeoutMs]
                                ELSE Num(DefaultTimeoutMs)

(* ---------- C13 ---------- *)
\* what substitution has to return for the template t, leaf by leaf: for a
\* string that is a token as a whole and whose key the table has, the
\* value of the table, itself; for every other string, the string
RECURSIVE LeavesSubstituted(_, _, _)
LeavesSubstituted(t, r, V) ==
    CASE t.k = "str" ->
           IF IsToken(t.v) /\ TokenKey(t.v) \in DOMAIN V
           THEN r = V[TokenKey(t.v)]
           ELSE r = t
      [] t.k = "arr" ->
           /\ r.k = "arr"
           /\ \A i \in DOMAIN t.v \cap DOMAIN r.v : LeavesSubstituted(t.v[i], r.v[i], V)
      [] t.k = "obj" ->
           /\ r.k = "obj"
           /\ \A f \in DOMAIN t.v \cap DOMAIN r.v : LeavesSubstituted(t.v[f], r.v[f], V)
      [] OTHER -> TRUE

RECURSIVE ShapePreserved(_, _)
ShapePreserved(t, r) ==
    CASE t.k = "arr" ->
           /\ r.k = "arr"
           /\ Len(r.v) = Len(t.v)
           /\ \A i \in DOMAIN t.v : ShapePreserved(t.v[i], r.v[i])
      [] t.k = "obj" ->
           /\ r.k = "obj"
           /\ DOMAIN r.v = DOMAIN t.v
           /\ \A f \in DOMAIN t.v : ShapePreserved(t.v[f], r.v[f])
      [] t.k \in {"num", "bool", "null"} -> r = t
      [] OTHER -> TRUE

\* C14: substitutePlaceholders keeps the shape of the template: an array
\* becomes an array of the same length, substituted position by position,
\* an object becomes an object with exactly the same keys, and numbers,
\* booleans and null are returned unchanged.
C14_ShapePreserved ==
    \A i \in DOMAIN returned : ShapePreserved(argTemplate, returned[i])

RECURSIVE TypesAreStrings(_)
TypesAreStrings(items) ==
    \A i \in DOMAIN items.v :
        /\ items.v[i].k = "obj"
        /\ "type" \in DOMAIN items.v[i].v
        /\ items.v[i].v.type.k = "str"
        /\ (/\ ToUpperCase(items.v[i].v.type.v) = tagLIST
            /\ "value" \in DOMAIN items.v[i].v
            /\ items.v[i].v.value.k = "arr") => TypesAreStrings(items.v[i].v.value)

\* C16: for every descriptor list whose descriptors have a string as type
\* and a JSON value as value, and for every set of builders besides the
\* text builder, buildDataItems throws nothing, returns a list as long as
\* its input and leaves the descriptors as they were.
C16_Total ==
    /\ [][argItems' = argItems]_vars
    /\ [](TypesAreStrings(argItems) =>
            \A c \in DOMAIN built :
                ~built[c].thrown /\ Len(built[c].items) = Len(argItems.v))

(* ---------- vocabulary of C17 .. C20 ---------- *)
\* the descriptor it is an object whose type, in upper case, is one of tags
HasTag(it, tags) ==
    /\ it.k = "obj"
    /\ "type" \in DOMAIN it.v
    /\ it.v.type.k = "str"
    /\ ToUpperCase(it.v.type.v) \in tags

\* the value of the descriptor; undefined when it has none
ValueOf(it) == IF "value" \in DOMAIN it.v THEN it.v.value ELSE Undefined

\* P(it, b) holds for every descriptor of argItems with one of the tags and
\* a value of kind in kinds, and the item b built from it, in every call
\* that returned
ForBuilt(tags, kinds, P(_, _)) ==
    \A c \in DOMAIN built :
        ~built[c].thrown =>
            \A i \in DOMAIN argItems.v :
                (HasTag(argItems.v[i], tags) /\ ValueOf(argItems.v[i]).k \in kinds)
                => P(argItems.v[i], built[c].items[i])

(* ---------- C17 ---------- *)
\* C17: a BOOL_ARRAY descriptor whose value is an array of n elements is
\* built by the first of: the boolean-array builder, if it exists; else, if
\* the list builder exists, a list named `name` with n children named
\* name_0 .. name_(n-1) in order, child i carrying the boolean value of
\* element i; else one text item holding the JSON text of the array.
C17_BoolArrayChain ==
    ForBuilt({tagBOOLARRAY}, {"arr"},
        LAMBDA it, b :
            LET val == it.v.value
                n == Len(val.v)
            IN /\ b.name = it.v.name
               /\ IF "boolArray" \in argEncoders THEN b.enc = "boolArray"
                  ELSE IF "list" \in argEncoders
                  THEN /\ b.enc = "list"
                       /\ Len(b.children) = n
                       /\ \A j \in 1..n :
                            /\ b.children[j].name =
                                 Str(it.v.name.v \o <<"_">> \o NumText(j - 1))
                            /\ \/ b.children[j].value = Bool(ToBoolean(val.v[j]))
                               \/ b.children[j].value =
                                    Str(IF ToBoolean(val.v[j]) THEN sTrue ELSE sFalse)
                  ELSE /\ b.enc = "a"
                       /\ b.children = <<>>
                       /\ b.value = Str(JSONStringify(val)))

\* flags = [true, false, true] without a boolean-array builder: a list
\* `flags` of the boolean items flags_0, flags_1, flags_2
C17_Witness ==
    /\ Len(built) > 0
    /\ argItems = Arr(<<Desc(tagBOOLARRAY, sFlags, Arr(<<Bool(TRUE), Bool(FALSE), Bool(TRUE)>>))>>)
    /\ argEncoders = {"list", "bool"}
    /\ built[1].items =
         <<ListItem(Str(sFlags),
                    <<ValueItem("bool", Str(sFlags \o <<"_", "0">>), Bool(TRUE)),
                      ValueItem("bool", Str(sFlags \o <<"_", "1">>), Bool(FALSE)),
                      ValueItem("bool", Str(sFlags \o <<"_", "2">>), Bool(TRUE))>>)>>

(* ---------- C18 ---------- *)
\* the array with every element coerced to a boolean
Coerced(val) == Arr([j \in DOMAIN val.v |-> Bool(ToBoolean(val.v[j]))])

\* C18: for a BOOL_ARRAY descriptor whose value is an array, the elements
\* are coerced to booleans in every branch: the boolean-array builder gets
\* an array of booleans, the children of the list fallback carry booleans,
\* and the text fallback is the JSON text of an array of booleans.
C18_ElementsCoerced ==
    ForBuilt({tagBOOLARRAY}, {"arr"},
        LAMBDA it, b :
            LET val == it.v.value IN
            CASE b.enc = "boolArray" -> b.value = Coerced(val)
              [] b.enc = "list" ->
                   \A j \in DOMAIN b.children :
                      \/ b.children[j].value = Bool(ToBoolean(val.v[j]))
                      \/ b.children[j].value =
                           Str(IF ToBoolean(val.v[j]) THEN sTrue ELSE sFalse)
              [] OTHER -> b.value = Str(JSONStringify(Coerced(val))))

(* ---------- C19 ---------- *)
\* the builders a numeric type asks for, in order
ChainOf(t) ==
    CASE t = tagU2 -> <<"u2">>
      [] t = tagU4 -> <<"u4">>
      [] t = tagI2 -> <<"i2", "i4">>
      [] t = tagI4 -> <<"i4">>
      [] t = tagF4 -> <<"f4">>
      [] OTHER -> <<"f8">>

\* C19: for the types U2, U4, I2, I4, F4, F8 the value is coerced to a
\* number and given to the builder of the type when DataItemRef has it; I2
\* without i2 goes to i4 when that exists; the number is built as text only
\* when no builder of the chain exists.  (Values: numbers, strings, null,
\* booleans, none.)
C19_NumericChain ==
    ForBuilt({tagU2, tagU4, tagI2, tagI4, tagF4, tagF8},
             {"num", "str", "null", "bool", "undef"},
        LAMBDA it, b :
            LET chain == ChainOf(ToUpperCase(it.v.type.v))
                n == ToNumber(Coalesce(ValueOf(it), Num(0)))
            IN /\ b.name = it.v.name
               /\ chain[1] \in argEncoders => (b.enc = chain[1] /\ b.value = n)
               /\ (chain[1] \notin argEncoders /\ Len(chain) = 2 /\ chain[2] \in argEncoders)
                    => (b.enc = chain[2] /\ b.value = n)
               /\ b.enc = "a" <=> (\A j \in DOMAIN chain : chain[j] \notin argEncoders)
               /\ b.enc = "a" => b.value = ToStringJS(n))

\* an I2 descriptor built by the i4 builder, with the string "12" as the number 12
C19_Witness ==
    /\ Len(built) > 0
    /\ argItems = Arr(<<Desc(tagI2, sN, Str(<<"1", "2">>))>>)
    /\ argEncoders = {"i4"}
    /\ built[1].items = <<ValueItem("i4", Str(sN), Num(12))>>

(* ---------- C20 ---------- *)
\* the item b encodes exactly the bytes `bytes`: as a binary item, or,
\* without a binary builder, as their hex text with the number of bytes as size
EncodesBytes(b, bytes) ==
    \/ b.enc = "b" /\ b.value = Buffer(bytes)
    \/ /\ b.enc = "a" /\ "b" \notin argEncoders
       /\ b.value = Str(BytesToHex(bytes)) /\ b.size = Num(Len(bytes))

\* the number of fields of a comma-separated string that are numeric
NumericFields(s) ==
    Cardinality({j \in DOMAIN SplitComma(s) : StringToNumber(Trim(SplitComma(s)[j])).k = "num"})

ByteCount(b) == IF b.enc = "b" THEN Len(b.value.v) ELSE b.size.v

\* C20: a B/BIN descriptor with a string without comma: all non-hex
\* characters are stripped; a non-empty residual of even length is encoded
\* as exactly half as many whole bytes; with a residual of odd length, or
\* none, the original string is built as plain text, never a half byte.  An
\* array is encoded as one byte per element, a comma-separated string as
\* one byte per numeric field.
C20_BinaryDecoding ==
    /\ ForBuilt({tagB, tagBIN}, {"str"},
         LAMBDA it, b :
            LET s == it.v.value.v
                hex == StripNonHex(s)
            IN IF HasComma(s)
               THEN (b.enc \in {"a", "b"} /\ ByteCount(b) = NumericFields(s))
               ELSE IF Len(hex) > 0 /\ Len(hex) % 2 = 0
               THEN /\ EncodesBytes(b, HexToBytes(hex))
                    /\ ByteCount(b) * 2 = Len(hex)
               ELSE b = TextItem(it.v.name, s, Num(Len(s))))
    /\ ForBuilt({tagB, tagBIN}, {"arr"},
         LAMBDA it, b : b.enc \in {"a", "b"} /\ ByteCount(b) = Len(it.v.value.v))

\* "0a-ff" decoded to two bytes, "abc" kept as text, an array of five bytes,
\* and "1, 2,,x" giving the three bytes 1, 2, 0
C20_Witness ==
    /\ Len(built) > 0
    /\ "b" \in argEncoders
    /\ Len(argItems.v) = 4
    /\ built[1].items =
         <<ValueItem("b", Str(sN), Buffer(<<10, 255>>)),
           TextItem(Str(sN), <<"a", "b", "c">>, Num(3)),
           ValueItem("b", Str(sN), Buffer(<<0, 5, 6, 9, 255>>)),
           ValueItem("b", Str(sN), Buffer(<<1, 2, 0>>))>>

(* ---------- C21 ---------- *)
RecognisedTags ==
    {tagA, tagU2, tagU4, tagI2, tagI4, tagF4, tagF8, tagBOOL, tagBOOLARRAY, tagB, tagBIN, tagLIST}

\* the type of the descriptor as text; <<>> when it has none
TypeText(it) ==
    IF "type" \in DOMAIN it.v /\ it.v.type.k = "str" THEN it.v.type.v ELSE <<>>

\* the descriptor is built as text: its type is A in any case, is absent,
\* or is a tag outside the recognised set
IsTextDescriptor(it) ==
    /\ it.k = "obj"
    /\ "type" \in DOMAIN it.v => it.v.type.k = "str"
    /\ \/ TypeText(it) = <<>>
       \/ ToUpperCase(TypeText(it)) = tagA
       \/ ToUpperCase(TypeText(it)) \notin RecognisedTags

\* the descriptor with its type written in upper case
UpperTyped(it) == Obj([it.v EXCEPT !["type"] = Str(ToUpperCase(@.v))])

\* C21: the type is matched whatever its case, and a descriptor whose type
\* is A, is absent or is not a recognised tag is built as the text item of
\* its name, its value as a string, and the size of the descriptor when it
\* has one, max(1, length of the string) otherwise.
C21_TextItem ==
    \A c \in DOMAIN built :
        ~built[c].thrown =>
            \A i \in DOMAIN argItems.v :
                LET it == argItems.v[i]
                    b == built[c].items[i]
                IN /\ HasTag(it, RecognisedTags \cup {tagUnknown}) =>
                        b = buildItem(UpperTyped(it), argEncoders)
                   /\ IsTextDescriptor(it) =>
                        LET txt == ToStringJS(Coalesce(ValueOf(it), Str(<<>>))).v IN
                        /\ b.enc = "a"
                        /\ b.name = it.v.name
                        /\ b.value = Str(txt)
                        /\ b.size = IF "size" \in DOMAIN it.v THEN it.v.size
                                    ELSE Num(Max(1, Len(txt)))

(* ---------- C22 ---------- *)
\* the list item b is what the LIST descriptor it has to give: the name of
\* it, and as children the items built from the descriptors of its value,
\* one for one in their order, nested LIST descriptors in the same way
RECURSIVE ListBuilt(_, _)
ListBuilt(it, b) ==
    LET val == it.v.value IN
    /\ b.enc = "list"
    /\ b.name = it.v.name
    /\ Len(b.children) = Len(val.v)
    /\ \A j \in DOMAIN val.v :
          /\ b.children[j] = buildItem(val.v[j], argEncoders)
          /\ (HasTag(val.v[j], {tagLIST}) /\ ValueOf(val.v[j]).k = "arr")
                => ListBuilt(val.v[j], b.children[j])

HasField(obj, f) == Get(obj, f).k \notin {"undef", "null"}

\* the value of the field in the substituted copy, else in the original
\* template, else the default
FieldOf(substituted, templateObj, f, default) ==
    IF HasField(substituted, f) THEN Get(substituted, f)
    ELSE IF HasField(templateObj, f) THEN Get(templateObj, f)
    ELSE default

\* C23: the message sendTemplate hands to sendAndWaitIfNeeded has device,
\* stream, func and replyExpected of the substituted template, each from the
\* original template when the substituted copy has none, device 1 and
\* replyExpected false when neither has one; its items are the list
\* buildDataItems returns for the items of the substituted template.
C23_MessageAssembly ==
    Dispatched(last) =>
        LET tpl == RequestTemplate(last.name, last.inline)
            sub == last.substituted
        IN /\ sub = substitutePlaceholders(tpl, ValueTable(last.values))
           /\ last.msg.device = ToNumber(FieldOf(sub, tpl, "device", Num(1)))
           /\ (HasField(sub, "stream") \/ HasField(tpl, "stream")) =>
                 last.msg.stream = ToNumber(FieldOf(sub, tpl, "stream", Null))
           /\ (HasField(sub, "func") \/ HasField(tpl, "func")) =>
                 last.msg.func = ToNumber(FieldOf(sub, tpl, "func", Null))
           /\ last.msg.replyExpected =
                 ToBoolean(FieldOf(sub, tpl, "replyExpected", Bool(FALSE)))
           /\ last.msg.items =
                 buildDataItems(OrElse(Get(sub, "items"), Arr(<<>>)), DataItem).items

\* device 2 from the substituted copy, replyExpected from the original
\* template because the copy holds null, and the built text item "2"
C23_Witness ==
    /\ Dispatched(last) /\ last.inline = "device" /\ last.values = "dev"
    /\ last.msg.device = Num(2) /\ last.msg.func = Num(3)
    /\ last.msg.replyExpected
    /\ last.msg.items = <<TextItem(Str(sPayload), <<"2">>, Num(1))>>

(* ---------- C24 ---------- *)
\* the waited sends that were registered and are not settled yet
Unsettled == {o \in 1..nops : promise[o].state = "pending"}

\* C24: between two handlers, the keys of pendingReplies are exactly the
\* contexts of the waited sends that were registered and are not yet settled
\* by their reply, their timeout or a dispatch failure; the timeout of every
\* entry is armed, and no timeout is armed for a context without an entry.
C24_TableInvariant ==
    /\ DOMAIN pendingReplies = {info[o].ctx : o \in Unsettled}
    /\ \A c \in DOMAIN pendingReplies : timer[pendingReplies[c].timeout] = "armed"
    /\ \A o \in 1..nops : timer[o] = "armed" => info[o].ctx \in DOMAIN pendingReplies

(* ---------- C25 ---------- *)
\* the waited send o has its entry in pendingReplies
HasEntry(o) ==
    /\ info[o].ctx \in DOMAIN pendingReplies
    /\ pendingReplies[info[o].ctx].resolve = o

\* C25: the pending requests of the two connections are isolated: a
\* registration, a reply event, a timeout or a dispatch failure that belongs
\* to one connection leaves the entry of every request dispatched on the
\* other connection in the table as it is and does not settle that request,
\* also when both transports have given out the same context.
C25_ConnectionsIsolated ==
    [][\A o \in 1..nops :
          (info[o].conn # last'.conn /\ HasEntry(o)) =>
              /\ info[o].ctx \in DOMAIN pendingReplies'
              /\ pendingReplies'[info[o].ctx] = pendingReplies[info[o].ctx]
              /\ promise'[o] = promise[o]
              /\ timer'[o] = timer[o]]_vars

(* ---------- vocabulary of C26 .. C28 ---------- *)
\* in the calls `steps`, a comes before b
Before(steps, a, b) ==
    \E i, j \in DOMAIN steps : i < j /\ steps[i] = a /\ steps[j] = b
Called(steps, a) == \E i \in DOMAIN steps : steps[i] = a

(* ---------- C26 ---------- *)
\* C26: in the handler of a reply event and in the timeout callback, the
\* entry is removed from pendingReplies before resolve or reject is called:
\* at the moment of the call the table does not contain the context.
C26_RemovedBeforeCallback ==
    [][last'.kind \in {"trx-complete", "timeout"} =>
          \A i \in DOMAIN last'.steps :
              last'.steps[i] \in {"resolve", "reject"} =>
                  last'.ctx \notin
                      DOMAIN TableAt(last'.steps, i, pendingReplies, last'.ctx, last'.op)]_vars

(* ---------- C27 ---------- *)
\* C27: in a waited send the timeout is armed and the entry of the message's
\* context is in pendingReplies, made by this send, when conn.send is
\* called; a reply event for the message that is delivered right after the
\* send finds that entry in the table, its timeout armed.
C27_RegisteredBeforeSend ==
    /\ [][(Dispatched(last') /\ last'.wait) =>
            /\ Before(last'.steps, "setTimeout", "send")
            /\ \A i \in DOMAIN last'.steps :
                  last'.steps[i] = "send" =>
                      LET tbl == TableAt(last'.steps, i, pendingReplies, last'.ctx, last'.op)
                      IN /\ last'.ctx \in DOMAIN tbl
                         /\ tbl[last'.ctx] = [resolve |-> last'.op, timeout |-> last'.op]]_vars
    /\ [][(/\ Dispatched(last) /\ last.wait /\ last.thrown = ThrowNone
           /\ last'.kind = "trx-complete" /\ last'.conn = last.conn /\ last'.op = last.op) =>
            /\ last'.hit
            /\ pendingReplies[last'.ctx] = [resolve |-> last.op, timeout |-> last.op]
            /\ timer[last.op] = "armed"]_vars

\* a reply event delivered right after its waited send found the entry and
\* resolved the send
C27_Witness ==
    /\ last.kind = "trx-complete" /\ last.hit
    /\ nops = 1 /\ last.op = 1
    /\ Resolved(1) /\ promise[1].value = ReplyResult(1, 1)
    /\ timer[1] = "cleared"

(* ---------- C28 ---------- *)
\* C28: a request that reaches dispatch has gone through these steps in
\* this order: substitution with the value table of the caller, validation
\* that every placeholder has a value, building of the items, assembly of
\* the message, registration and dispatch.
C28_FixedStepOrder ==
    Dispatched(last) =>
        /\ Before(last.steps, "substitutePlaceholders", "findPlaceholders")
        /\ Before(last.steps, "findPlaceholders", "buildDataItems")
        /\ Before(last.steps, "buildDataItems", "build")
        /\ Before(last.steps, "build", "send")
        /\ last.wait => Before(last.steps, "build", "set")

(* ---------- C29 ---------- *)
\* the key of a token: the text between the braces without the white space
\* around it
KeyItself(s) == Trim(Inner(s))

\* the strings of the template that are a token as a whole
RECURSIVE TokenLeaves(_)
TokenLeaves(t) ==
    CASE t.k = "str" -> IF IsToken(t.v) THEN {t.v} ELSE {}
      [] t.k \in {"arr", "obj"} -> UNION {TokenLeaves(c) : c \in Range(t.v)}
      [] OTHER -> {}

\* every token of t is replaced in r by the value the table has for the key
\* itself, and left as it is when the table has none
RECURSIVE ResolvedByKey(_, _, _)
ResolvedByKey(t, r, V) ==
    CASE t.k = "str" ->
           IsToken(t.v) => r = IF KeyItself(t.v) \in DOMAIN V THEN V[KeyItself(t.v)] ELSE t
      [] t.k = "arr" ->
           r.k = "arr" /\ \A i \in DOMAIN t.v \cap DOMAIN r.v : ResolvedByKey(t.v[i], r.v[i], V)
      [] t.k = "obj" ->
           r.k = "obj" /\ \A f \in DOMAIN t.v \cap DOMAIN r.v : ResolvedByKey(t.v[f], r.v[f], V)
      [] OTHER -> TRUE

\* C29: a token written with white space around the key, as in {{ a }}, is
\* resolved with the entry of the value table for the key itself: the white
\* space before and after the key is not part of the key
\* substitutePlaceholders looks up nor of the key findPlaceholders reports.
C29_WhitespaceNotInKey ==
    /\ \A i \in DOMAIN returned : ResolvedByKey(argTemplate, returned[i], argValues)
    /\ \A i \in DOMAIN found : found[i] = {KeyItself(s) : s \in TokenLeaves(argTemplate)}

(* ---------- C30 ---------- *)
\* C30: whenever a waited send succeeds, the request in its result is the
\* message this send dispatched and the reply is the reply to that message,
\* also when its context was used before by a request that timed out and
\* whose reply event arrives late.
C30_ResultIsOwnExchange ==
    \A o \in 1..nops : Resolved(o) => promise[o].value = ReplyResult(o, o)

(* ---------- C31 ---------- *)
\* C31: in every send path (sendTemplate, /send, /send-s1f1, /send-custom)
\* the replyExpected flag of the message given to conn.send equals the
\* waitForReply argument given to sendAndWaitIfNeeded: when conn.send is
\* called, pendingReplies holds an entry made by this send exactly when the
\* message asks for a reply, and after a send that does not fail the entry
\* is in the table exactly when the message asks for a reply.
C31_FlagEqualsWait ==
    /\ [](last.sendCalls > 0 => last.msg.replyExpected = last.wait)
    /\ [][last'.sendCalls > 0 =>
            /\ \A i \in DOMAIN last'.steps :
                  last'.steps[i] = "send" =>
                      LET tbl == TableAt(last'.steps, i, pendingReplies, last'.ctx, nops + 1)
                      IN (last'.ctx \in DOMAIN tbl /\ tbl[last'.ctx].resolve = nops + 1
                          /\ Called(SubSeq(last'.steps, 1, i), "set"))
                         <=> last'.msg.replyExpected
            /\ last'.thrown = ThrowNone =>
                  IF last'.msg.replyExpected
                  THEN /\ last'.ctx \in DOMAIN pendingReplies'
                       /\ pendingReplies'[last'.ctx].resolve = last'.op
                       /\ timer'[last'.op] = "armed"
                  ELSE pendingReplies' = pendingReplies /\ timer' = timer]_vars

\* a /send-custom request with waitReply: 1 that waits with its entry in
\* the table, the second waiting send of the run
C31_Witness ==
    /\ last.kind = "send-custom" /\ last.sendCalls = 1
    /\ last.msg.replyExpected /\ last.wait
    /\ last.msg.stream = Num(6) /\ last.msg.func = Num(11)
    /\ HasEntry(last.op)
    /\ nops = 2

====
